---------------------------- MODULE Spec2Model ----------------------------
(***************************************************************************)
(* Model of util-add-schema-to-swagger:                                    *)
(*   xsd-to-json-schema.py      XSDToJSONSchemaConverter                   *)
(*   apply-schema-to-swagger.py SwaggerSchemaApplier                       *)
(*   batch-enhance-apis.py      main                                       *)
(*                                                                         *)
(* Python strings whose characters the code inspects (startswith, "in",    *)
(* lower) are sequences of one-character strings.  Python dicts are        *)
(* functions whose DOMAIN is the set of keys present.                      *)
(*                                                                         *)
(* Four specifications share the variables, each holding the variables of  *)
(* the other three at rest:                                                *)
(*   SpecPattern    _convert_xsd_pattern_to_json applied twice             *)
(*   SpecConverter  one type of schema.types converted and registered      *)
(*   Spec           runs of apply_schema_to_swagger on one applier object  *)
(*   SpecBatch      one run of the batch script                            *)
(***************************************************************************)
EXTENDS Integers, Sequences, FiniteSets, TLC

VARIABLES
    \* ---- XSDToJSONSchemaConverter._convert_xsd_pattern_to_json ----
    pat_in,       \* the XSD pattern handed to the converter
    pat_once,     \* the converter's result for pat_in
    pat_twice,    \* the converter's result for pat_once
    pat_pc,       \* "off" | "new" | "once" | "twice"
    \* ---- files read and written by SwaggerSchemaApplier.apply_schema_to_swagger ----
    swagger_file,          \* the Swagger document on disk: "info", "schemas" (components.schemas)
    schema_file,           \* the "definitions" of the JSON schema on disk, in file order
    strict_mode,           \* the strict_mode argument
    \* ---- the SwaggerSchemaApplier object ----
    schema_mappings,       \* self.schema_mappings, in insertion order: <<[key, def], ...>>
    validation_patterns,   \* self.validation_patterns
    applied_enhancements,  \* self.applied_enhancements
    \* ---- one run of apply_schema_to_swagger ----
    swagger_data,          \* the loaded document, mutated in place
    heap,                  \* the 'properties' dict objects, by identity
    pc,                    \* the next step of the run
    runs,                  \* completed runs of this applier object
    \* ---- XSDToJSONSchemaConverter: one type of schema.types being processed ----
    xsd_name,              \* the name of the type, as characters
    type_obj,              \* the type object: the attributes it exposes
    json_type,             \* the record under construction
    facets_found,          \* the local facets_found of _convert_simple_type
    definitions,           \* json_schema["definitions"], keyed by the converted name
    conv_pc,               \* the next step of the conversion
    \* ---- batch-enhance-apis.py: one run of main ----
    paths,                 \* which of input_dir and schema_file exist
    directory,             \* the files under input_dir
    dry_run,               \* args.dry_run
    swagger_files,         \* the list find_swagger_files returned
    attempts,              \* the calls of enhance_api_file made so far, in order
    successful,            \* the counter 'successful' of main
    failed,                \* the counter 'failed' of main
    exit_code,             \* the exit status, once batch_pc is "exited"
    batch_pc               \* "off" | "start" | "loop" | "exited"

patVars == <<pat_in, pat_once, pat_twice, pat_pc>>
fileVars == <<swagger_file, schema_file, strict_mode>>
applierVars == <<schema_mappings, validation_patterns, applied_enhancements>>
runVars == <<swagger_data, heap, pc, runs>>
convVars == <<xsd_name, type_obj, json_type, facets_found, definitions, conv_pc>>
batchVars == <<paths, directory, dry_run, swagger_files, attempts, successful, failed,
               exit_code, batch_pc>>

vars == <<pat_in, pat_once, pat_twice, pat_pc,
          swagger_file, schema_file, strict_mode,
          schema_mappings, validation_patterns, applied_enhancements,
          swagger_data, heap, pc, runs,
          xsd_name, type_obj, json_type, facets_found, definitions, conv_pc,
          paths, directory, dry_run, swagger_files, attempts, successful, failed,
          exit_code, batch_pc>>

(***************************************************************************)
(* Bounds                                                                  *)
(***************************************************************************)
MaxPatLen == 5       \* longest XSD pattern tried
MaxDefinitions == 2  \* most definitions in the JSON schema file
MaxSchemas == 1      \* most schemas in the Swagger document
MaxRuns == 2         \* runs of apply_schema_to_swagger on one applier object
MaxNameLen == 3      \* longest type name tried over NameAlphabet
MaxItems == 2        \* most restrictions, validators, pattern nodes, elements, attributes

(***************************************************************************)
(* Sequence helpers (Python str operations)                                *)
(***************************************************************************)
\* str.startswith(c) / str.endswith(c) for a one-character c
StartsWith(s, c) == Len(s) > 0 /\ s[1] = c
EndsWith(s, c) == Len(s) > 0 /\ s[Len(s)] = c
\* c in s, for a one-character c
HasChar(s, c) == \E i \in 1..Len(s) : s[i] = c
\* sub in s, for a string sub
Contains(s, sub) ==
    \E i \in 0..(Len(s) - Len(sub)) :
        \A j \in 1..Len(sub) : s[i + j] = sub[j]

Min(S) == CHOOSE x \in S : \A y \in S : x <= y

UpperLetters == <<"A","B","C","D","E","F","G","H","I","J","K","L","M",
                  "N","O","P","Q","R","S","T","U","V","W","X","Y","Z">>
LowerLetters == <<"a","b","c","d","e","f","g","h","i","j","k","l","m",
                  "n","o","p","q","r","s","t","u","v","w","x","y","z">>
LowerChar(c) ==
    IF \E i \in 1..Len(UpperLetters) : UpperLetters[i] = c
    THEN LowerLetters[CHOOSE i \in 1..Len(UpperLetters) : UpperLetters[i] = c]
    ELSE c
\* str.lower()
Lower(s) == [i \in 1..Len(s) |-> LowerChar(s[i])]

\* The characters of every name the applier inspects.
Spelling ==
    ("Date" :> <<"D","a","t","e">>)
 @@ ("Time" :> <<"T","i","m","e">>)
 @@ ("MgmtCode" :> <<"M","g","m","t","C","o","d","e">>)
 @@ ("DlrCode" :> <<"D","l","r","C","o","d","e">>)
 @@ ("IntCode" :> <<"I","n","t","C","o","d","e">>)
 @@ ("SrcID" :> <<"S","r","c","I","D">>)
 @@ ("FundAcctID" :> <<"F","u","n","d","A","c","c","t","I","D">>)
 @@ ("FundID" :> <<"F","u","n","d","I","D">>)
 @@ ("OrdID" :> <<"O","r","d","I","D">>)
 @@ ("AmtValue" :> <<"A","m","t","V","a","l","u","e">>)
 @@ ("SrcType" :> <<"S","r","c","T","y","p","e">>)
 @@ ("ActnCode" :> <<"A","c","t","n","C","o","d","e">>)
 @@ ("AcctDesig" :> <<"A","c","c","t","D","e","s","i","g">>)
 @@ ("AmtType" :> <<"A","m","t","T","y","p","e">>)
 @@ ("Date8" :> <<"D","a","t","e","8">>)
 @@ ("Time6" :> <<"T","i","m","e","6">>)
 @@ ("MgmtCodeType" :> <<"M","g","m","t","C","o","d","e","T","y","p","e">>)
 @@ ("Length4" :> <<"L","e","n","g","t","h","4">>)
 @@ ("Alpha3To4" :> <<"A","l","p","h","a","3","T","o","4">>)
 @@ ("String15" :> <<"S","t","r","i","n","g","1","5">>)
 @@ ("String3To5" :> <<"S","t","r","i","n","g","3","T","o","5">>)
 @@ ("String5To7" :> <<"S","t","r","i","n","g","5","T","o","7">>)
 @@ ("Value14" :> <<"V","a","l","u","e","1","4">>)
 @@ ("AcctDesigType" :> <<"A","c","c","t","D","e","s","i","g","T","y","p","e">>)
 @@ ("Amt9V2N" :> <<"A","m","t","9","V","2","N">>)
 @@ ("Percent2V3" :> <<"P","e","r","c","e","n","t","2","V","3">>)
 @@ ("AlphaNum1To5" :> <<"A","l","p","h","a","N","u","m","1","T","o","5">>)
 @@ ("Yes1" :> <<"Y","e","s","1">>)
 @@ ("YesNo1" :> <<"Y","e","s","N","o","1">>)
 @@ ("Integer3" :> <<"I","n","t","e","g","e","r","3">>)
 @@ ("Integer5" :> <<"I","n","t","e","g","e","r","5">>)
 @@ ("SettlMethd" :> <<"S","e","t","t","l","M","e","t","h","d">>)
 @@ ("RspnSrc" :> <<"R","s","p","n","S","r","c">>)
 @@ ("RtnCode" :> <<"R","t","n","C","o","d","e">>)
 @@ ("Buy" :> <<"B","u","y">>)
 @@ ("Sell" :> <<"S","e","l","l">>)
 @@ ("Switch" :> <<"S","w","i","t","c","h">>)
 @@ ("Transfer" :> <<"T","r","a","n","s","f","e","r">>)
 @@ ("ICT" :> <<"I","C","T">>)
 @@ ("TrxnTypBuy" :> <<"T","r","x","n","T","y","p","B","u","y">>)
 @@ ("TrxnTypSell" :> <<"T","r","x","n","T","y","p","S","e","l","l">>)
 @@ ("TrxnTypSwitch" :> <<"T","r","x","n","T","y","p","S","w","i","t","c","h">>)
 @@ ("TrxnTypTransfer" :> <<"T","r","x","n","T","y","p","T","r","a","n","s","f","e","r">>)
 @@ ("TrxnTypICT" :> <<"T","r","x","n","T","y","p","I","C","T">>)
 @@ ("ErrorCode" :> <<"E","r","r","o","r","C","o","d","e">>)
 @@ ("CorrlatnID" :> <<"C","o","r","r","l","a","t","n","I","D">>)
 @@ ("string15" :> <<"s","t","r","i","n","g","1","5">>)
 @@ ("supconfirm" :> <<"s","u","p","c","o","n","f","i","r","m">>)
 @@ ("Order" :> <<"O","r","d","e","r">>)
 @@ ("TradeDate" :> <<"T","r","a","d","e","D","a","t","e">>)
 @@ ("SupConfirm" :> <<"S","u","p","C","o","n","f","i","r","m">>)
 @@ ("TradeDateTime" :> <<"T","r","a","d","e","D","a","t","e","T","i","m","e">>)
 @@ ("Notes" :> <<"N","o","t","e","s">>)
 @@ ("Code" :> <<"C","o","d","e">>)
 @@ ("Payload" :> <<"P","a","y","l","o","a","d">>)
 @@ ("Legacy" :> <<"L","e","g","a","c","y">>)
 @@ ("STRING15" :> <<"S","T","R","I","N","G","1","5">>)
 @@ ("Buy Order API" :> <<"B","u","y"," ","O","r","d","e","r"," ","A","P","I">>)
 @@ ("Sell or Buy API" :> <<"S","e","l","l"," ","o","r"," ","B","u","y"," ","A","P","I">>)
 @@ ("Fund Lookup" :> <<"F","u","n","d"," ","L","o","o","k","u","p">>)

\* name.lower() of each of those names
LowerSpelling == [n \in DOMAIN Spelling |-> Lower(Spelling[n])]

(***************************************************************************)
(* Dict helpers (Python dict operations)                                   *)
(***************************************************************************)
EmptyDict == [k \in {} |-> TRUE]
Has(d, k) == k \in DOMAIN d
\* d[k] = v
Put(d, k, v) == [x \in DOMAIN d \cup {k} |-> IF x = k THEN v ELSE d[x]]

(***************************************************************************)
(* xsd-to-json-schema.py: _convert_xsd_pattern_to_json                     *)
(***************************************************************************)
PatternAlphabet == {"A", "|", "(", ")", "^", "$", "\\"}

RECURSIVE SeqsUpTo(_, _)
SeqsUpTo(S, n) ==
    IF n = 0 THEN {<<>>}
    ELSE LET shorter == SeqsUpTo(S, n - 1)
         IN  shorter \cup {Append(s, c) : s \in {t \in shorter : Len(t) = n - 1}, c \in S}

Patterns == SeqsUpTo(PatternAlphabet, MaxPatLen)

\* lines 411-414: wrap an alternation that is not grouped
GroupAlternation(pattern) ==
    IF HasChar(pattern, "|") /\ ~(StartsWith(pattern, "(") /\ EndsWith(pattern, ")"))
    THEN <<"(">> \o pattern \o <<")">>
    ELSE pattern

\* Variant of AddAnchors: anchors are added without looking at the pattern.
AddAnchorsAlways(pattern) == <<"^">> \o pattern \o <<"$">>

\* lines 416-420: add anchors if not present
AddAnchors(pattern) ==
    LET p1 == IF ~StartsWith(pattern, "^") THEN <<"^">> \o pattern ELSE pattern
    IN  IF ~EndsWith(p1, "$") THEN p1 \o <<"$">> ELSE p1

ConvertXsdPatternToJson(xsd_pattern) == AddAnchors(GroupAlternation(xsd_pattern))

\* no type is being converted
ConverterOff ==
    /\ xsd_name = <<>>
    /\ type_obj = EmptyDict
    /\ json_type = EmptyDict
    /\ facets_found = FALSE
    /\ definitions = EmptyDict
    /\ conv_pc = "off"

BatchOff ==
    /\ paths = [input_dir |-> FALSE, schema_file |-> FALSE]
    /\ directory = {}
    /\ dry_run = FALSE
    /\ swagger_files = <<>>
    /\ attempts = <<>>
    /\ successful = 0
    /\ failed = 0
    /\ exit_code = 0
    /\ batch_pc = "off"

ApplierOff ==
    /\ swagger_file = EmptyDict
    /\ schema_file = <<>>
    /\ strict_mode = FALSE
    /\ schema_mappings = <<>>
    /\ validation_patterns = EmptyDict
    /\ applied_enhancements = <<>>
    /\ swagger_data = EmptyDict
    /\ heap = EmptyDict
    /\ pc = "off"
    /\ runs = 0

PatternInit ==
    /\ ApplierOff
    /\ BatchOff
    /\ ConverterOff
    /\ pat_in \in Patterns
    /\ pat_once = <<>>
    /\ pat_twice = <<>>
    /\ pat_pc = "new"

\* the converter is called on an XSD pattern
ConvertPattern ==
    /\ pat_pc = "new"
    /\ pat_once' = ConvertXsdPatternToJson(pat_in)
    /\ pat_pc' = "once"
    /\ UNCHANGED <<batchVars, pat_in, pat_twice, fileVars, applierVars, runVars, convVars>>

\* the converter is called again on its own output
ConvertPatternAgain ==
    /\ pat_pc = "once"
    /\ pat_twice' = ConvertXsdPatternToJson(pat_once)
    /\ pat_pc' = "twice"
    /\ UNCHANGED <<batchVars, pat_in, pat_once, fileVars, applierVars, runVars, convVars>>

PatternNext == ConvertPattern \/ ConvertPatternAgain

SpecPattern == PatternInit /\ [][PatternNext]_vars

(***************************************************************************)
(* Properties of the pattern converter, checked under SpecPattern          *)
(***************************************************************************)
RECURSIVE BackslashRun(_, _)
\* the number of backslashes that end right before position i of p
BackslashRun(p, i) ==
    IF i > 1 /\ p[i - 1] = "\\" THEN 1 + BackslashRun(p, i - 1) ELSE 0

\* the character at position i of p is escaped by a backslash
Escaped(p, i) == BackslashRun(p, i) % 2 = 1

HasUnescapedAlternation(p) == \E i \in 1..Len(p) : p[i] = "|" /\ ~Escaped(p, i)

\* the parentheses open and not yet closed after position i of p
Depth(p, i) ==
    Cardinality({j \in 1..i : p[j] = "(" /\ ~Escaped(p, j)})
    - Cardinality({j \in 1..i : p[j] = ")" /\ ~Escaped(p, j)})

\* p is one group: its first character opens the group its last character closes
EnclosedAsWhole(p) ==
    /\ Len(p) >= 2
    /\ p[1] = "("
    /\ p[Len(p)] = ")" /\ ~Escaped(p, Len(p))
    /\ \A i \in 1..(Len(p) - 1) : Depth(p, i) >= 1
    /\ Depth(p, Len(p)) = 0

\* p is a regular expression: its groups are balanced and no escape is left open
WellFormedRegex(p) ==
    /\ \A i \in 1..Len(p) : Depth(p, i) >= 0
    /\ Depth(p, Len(p)) = 0
    /\ ~Escaped(p, Len(p) + 1)

Count(p, c) == Cardinality({i \in 1..Len(p) : p[i] = c})

\* C1: the converter is idempotent: converting its own output changes nothing.
C1_Idempotent == pat_pc = "twice" => pat_twice = pat_once

\* p has an unescaped alternation outside every group: p is then not one whole group
HasTopLevelAlternation(p) ==
    \E i \in 1..Len(p) : p[i] = "|" /\ ~Escaped(p, i) /\ Depth(p, i) = 0

\* C2: a pattern with an unescaped alternation that is not one whole group is
\* wrapped in a group and then anchored, so that the anchors apply to the whole
\* alternation; a pattern that is one whole group is not wrapped again.  Stated
\* for the regular expressions whose alternation lies outside every group, the
\* ones where an anchor would otherwise bind to a single branch.
C2_GroupsWholeAlternation ==
    (pat_pc \in {"once", "twice"} /\ WellFormedRegex(pat_in)) =>
        /\ HasTopLevelAlternation(pat_in)
              => pat_once = <<"^", "(">> \o pat_in \o <<")", "$">>
        /\ EnclosedAsWhole(pat_in) => Count(pat_once, "(") = Count(pat_in, "(")

\* out is from anchored exactly once: it starts with ^ and ends with $, at most
\* one of each was added, and none was added in front of (behind) an ungrouped
\* pattern that already starts (ends) with it.
AnchoredOnce(from, out) ==
    LET grouped == Count(out, "(") > Count(from, "(")
    IN  /\ StartsWith(out, "^")
        /\ EndsWith(out, "$")
        /\ Count(out, "^") - Count(from, "^") \in {0, 1}
        /\ Count(out, "$") - Count(from, "$") \in {0, 1}
        /\ (StartsWith(from, "^") /\ ~grouped) => Count(out, "^") = Count(from, "^")
        /\ (EndsWith(from, "$") /\ ~grouped) => Count(out, "$") = Count(from, "$")

FieldMappings == <<
    <<"Date", "Date8">>, <<"Time", "Time6">>, <<"MgmtCode", "MgmtCodeType">>,
    <<"DlrCode", "Length4">>, <<"IntCode", "Alpha3To4">>, <<"SrcID", "String15">>,
    <<"FundAcctID", "String15">>, <<"FundID", "String3To5">>, <<"OrdID", "String5To7">>,
    <<"AmtValue", "Value14">>, <<"SrcType", "SrcType">>, <<"ActnCode", "ActnCode">>,
    <<"AcctDesig", "AcctDesigType">>, <<"AmtType", "AmtType">> >>

\* lines 162-165
AdditionalTypes == {"Amt9V2N", "Percent2V3", "AlphaNum1To5", "Yes1", "YesNo1",
                    "Integer3", "Integer5"}

\* line 168
AllSchemaTypes == {FieldMappings[i][2] : i \in 1..Len(FieldMappings)} \cup AdditionalTypes

\* lines 185-221
Enums ==
    ("SrcType" :> [type |-> "string", enum |-> <<"D", "I", "F">>,
                   description |-> "Source type - D for Dealer, I for Intermediary, F for Fund"])
 @@ ("ActnCode" :> [type |-> "string", enum |-> <<"NEW", "CHG", "CAN", "CAX", "AOT", "REV">>,
                    description |-> "Action code"])
 @@ ("AcctDesigType" :> [type |-> "string", enum |-> <<"1", "2", "3">>,
                         description |-> "Account designation"])
 @@ ("AmtType" :> [type |-> "string",
                   enum |-> <<"A", "D", "F", "M", "P", "S", "T", "B", "C", "J", "L", "G", "H">>,
                   description |-> "Amount type"])
 @@ ("SettlMethd" :> [type |-> "string", enum |-> <<"1", "2", "3", "4", "5", "6">>,
                      description |-> "Settlement method"])
 @@ ("RspnSrc" :> [type |-> "string", enum |-> <<"I", "F", "N">>,
                   description |-> "Response source"])
 @@ ("RtnCode" :> [type |-> "string", enum |-> <<"00", "01", "98", "99", "50">>,
                   description |-> "Return code"])

\* lines 480-486, in insertion order; line 491 names the schema
TransactionTypes == <<
    [api_type |-> "Buy", name |-> "TrxnTypBuy",
     def |-> [type |-> "string", enum |-> <<"1">>, description |-> "Transaction type for Buy orders"]],
    [api_type |-> "Sell", name |-> "TrxnTypSell",
     def |-> [type |-> "string", enum |-> <<"5">>, description |-> "Transaction type for Sell orders"]],
    [api_type |-> "Switch", name |-> "TrxnTypSwitch",
     def |-> [type |-> "string", enum |-> <<"8">>, description |-> "Transaction type for Switch orders"]],
    [api_type |-> "Transfer", name |-> "TrxnTypTransfer",
     def |-> [type |-> "string", enum |-> <<"7">>, description |-> "Transaction type for Transfer orders"]],
    [api_type |-> "ICT", name |-> "TrxnTypICT",
     def |-> [type |-> "string", enum |-> <<"6">>, description |-> "Transaction type for ICT orders"]] >>

\* lines 508-519
ErrorSchemas ==
    ("ErrorCode" :> [type |-> "string", pattern |-> "^\\d{3}$",
                     description |-> "3-digit error code"])
 @@ ("CorrlatnID" :> [type |-> "string", maxLength |-> 48,
                      description |-> "Correlation ID for tracking"])

\* line 534; info.description is a sequence of text segments
EnhancementNote ==
    "\n\nThis API specification has been enhanced with comprehensive XML schema-based validation."

\* ---- values of the loaded document ----
\* line 90: yaml.safe_load gives a str for a node that is a plain scalar
Scalar(text) == [yaml_scalar |-> text]
\* lines 236 and 454: isinstance(schema, dict)
IsDict(loaded) == ~Has(loaded, "yaml_scalar")

\* ---- self.schema_mappings ----
RegKeys(reg) == {reg[i].key : i \in 1..Len(reg)}
\* self.schema_mappings[key]
RegGet(reg, key) == reg[CHOOSE i \in 1..Len(reg) : reg[i].key = key].def
\* self.schema_mappings[key] = def
RegPut(reg, key, def) ==
    IF key \in RegKeys(reg)
    THEN [i \in 1..Len(reg) |-> IF reg[i].key = key THEN [key |-> key, def |-> def] ELSE reg[i]]
    ELSE Append(reg, [key |-> key, def |-> def])

\* Variant of FindSchemaKeyCaseInsensitive: lines 403-404 alone, the exact match.
FindSchemaKeyExact(reg, schema_name) ==
    IF schema_name \in RegKeys(reg) THEN <<schema_name>> ELSE <<>>

\* lines 400-412: <<key>>, or <<>> for None
FindSchemaKeyCaseInsensitive(reg, schema_name) ==
    IF schema_name \in RegKeys(reg) THEN <<schema_name>>
    ELSE LET hits == {i \in 1..Len(reg) :
                        LowerSpelling[reg[i].key] = LowerSpelling[schema_name]}
         IN  IF hits = {} THEN <<>> ELSE <<reg[Min(hits)].key>>

\* dict.get(key) is truthy: the metadata values are strings, externalDocs a dict
Truthy(d, key) ==
    /\ Has(d, key)
    /\ IF key = "externalDocs" THEN DOMAIN d[key] # {} ELSE d[key] # ""

\* Variant of CopyValidation: a key the source schema lacks is cleared on the target.
CopyValidationClearing(target, source_schema, keys) ==
    [k \in (DOMAIN target \ keys) \cup (keys \cap DOMAIN source_schema) |->
        IF k \in keys THEN source_schema[k] ELSE target[k]]

\* lines 298-309 (keys with 'type') and 350-359 (keys without):
\* if key in source_schema: target[key] = source_schema[key]
CopyValidation(target, source_schema, keys) ==
    LET copied == keys \cap DOMAIN source_schema
    IN  [k \in DOMAIN target \cup copied |->
            IF k \in copied THEN source_schema[k] ELSE target[k]]

\* lines 293-295 and 312-317 (345-347 and 362-367): restore the metadata snapshot
RestoreMetadata(original, target) ==
    LET restored == {k \in {"externalDocs", "example", "description"} : Truthy(original, k)}
    IN  [k \in DOMAIN target \cup restored |->
            IF k \in restored THEN original[k] ELSE target[k]]

PropertyKeys == {"type", "pattern", "minLength", "maxLength", "enum", "format"}
TopLevelKeys == {"pattern", "minLength", "maxLength", "enum", "format"}

\* lines 286-288: the entries the loop of _enhance_property stops at
PropertyHits(reg, prop_name) ==
    {i \in 1..Len(FieldMappings) :
        /\ Contains(Spelling[prop_name], Spelling[FieldMappings[i][1]])
        /\ FindSchemaKeyCaseInsensitive(reg, FieldMappings[i][2]) # <<>>}

\* Variant of EnhanceProperty: the source schema is copied whole and nothing is restored.
EnhancePropertyBulk(reg, prop_name, prop_def) ==
    IF PropertyHits(reg, prop_name) = {} THEN prop_def
    ELSE LET schema_type == FieldMappings[Min(PropertyHits(reg, prop_name))][2]
             source_schema == RegGet(reg, FindSchemaKeyCaseInsensitive(reg, schema_type)[1])
         IN  CopyValidation(prop_def, source_schema, DOMAIN source_schema)

\* lines 265-320: _enhance_property
EnhanceProperty(reg, prop_name, prop_def) ==
    IF PropertyHits(reg, prop_name) = {} THEN prop_def
    ELSE LET schema_type == FieldMappings[Min(PropertyHits(reg, prop_name))][2]
             source_schema == RegGet(reg, FindSchemaKeyCaseInsensitive(reg, schema_type)[1])
         IN  RestoreMetadata(prop_def, CopyValidation(prop_def, source_schema, PropertyKeys))

\* Variant of EnhanceSchemaObject: line 257 without its second test, the key is
\* written in strict mode whether present or not.
EnhanceSchemaObjectForcing(schema, strict) ==
    IF Has(schema, "type") /\ schema["type"] = "object" /\ strict
    THEN Put(schema, "additionalProperties", FALSE)
    ELSE schema

\* lines 253-258: _enhance_schema_object, the schema dict itself
EnhanceSchemaObject(schema, strict) ==
    IF Has(schema, "type") /\ schema["type"] = "object"
       /\ strict /\ ~Has(schema, "additionalProperties")
    THEN Put(schema, "additionalProperties", FALSE)
    ELSE schema

\* lines 260-263: the properties dict objects _enhance_schema_object walks
WalkedCells(schemas) ==
    {schemas[n]["properties"] : n \in {m \in DOMAIN schemas :
        /\ IsDict(schemas[m])
        /\ Has(schemas[m], "type") /\ schemas[m]["type"] = "object"
        /\ Has(schemas[m], "properties")}}

\* lines 338-370: the field-mapping branch of _enhance_top_level_schema applies
TopLevelMapped(reg, schema_name) ==
    \E i \in 1..Len(FieldMappings) :
        /\ FieldMappings[i][1] = schema_name
        /\ FindSchemaKeyCaseInsensitive(reg, FieldMappings[i][2]) # <<>>

\* lines 376-398: the direct-validation branch
ApplyDirectValidation(schema_def, json_validation) ==
    LET copied == CopyValidation(schema_def, json_validation,
                                 {"enum", "pattern", "minLength", "maxLength"})
    IN  IF Has(json_validation, "description") /\ ~Has(schema_def, "description")
        THEN Put(copied, "description", json_validation["description"])
        ELSE copied

\* lines 322-398: _enhance_top_level_schema
EnhanceTopLevelSchema(reg, schema_name, schema_def) ==
    IF ~(Has(schema_def, "type") /\ schema_def["type"] = "string") THEN schema_def
    ELSE IF TopLevelMapped(reg, schema_name)
    THEN LET i == CHOOSE j \in 1..Len(FieldMappings) : FieldMappings[j][1] = schema_name
             source_schema == RegGet(reg, FindSchemaKeyCaseInsensitive(reg, FieldMappings[i][2])[1])
         IN  RestoreMetadata(schema_def, CopyValidation(schema_def, source_schema, TopLevelKeys))
    ELSE IF FindSchemaKeyCaseInsensitive(reg, schema_name) # <<>>
    THEN ApplyDirectValidation(schema_def,
                               RegGet(reg, FindSchemaKeyCaseInsensitive(reg, schema_name)[1]))
    ELSE schema_def

\* Variant of AddEnumTypes: an enum is added only under a name not yet present.
AddEnumTypesIfAbsent(schemas) ==
    [n \in DOMAIN schemas \cup DOMAIN Enums |->
        IF n \in DOMAIN schemas THEN schemas[n] ELSE Enums[n]]

\* lines 183-229: _add_enum_types
AddEnumTypes(schemas) ==
    [n \in DOMAIN schemas \cup DOMAIN Enums |->
        IF n \in DOMAIN Enums THEN Enums[n] ELSE schemas[n]]

\* lines 170-175: schemas[type_name] = self.schema_mappings[type_name].copy()
AddBaseTypes(reg, schemas) ==
    LET added == AllSchemaTypes \cap RegKeys(reg)
    IN  [n \in DOMAIN schemas \cup added |->
            IF n \in added THEN RegGet(reg, n) ELSE schemas[n]]

\* components.schemas of the loaded document; lines 126-129 create it when missing
SchemasOf(data) == IF Has(data, "schemas") THEN data["schemas"] ELSE EmptyDict

\* ---- loading and saving: properties dicts become objects and back ----
RegCell(key) == <<"reg", key>>
WithProps(d) == {n \in DOMAIN d : Has(d[n], "properties")}
\* yaml.safe_load / json.load of one mapping of schemas; origin is "doc" or "reg"
LoadSchemas(on_disk, origin) ==
    [n \in DOMAIN on_disk |->
        IF Has(on_disk[n], "properties") THEN Put(on_disk[n], "properties", <<origin, n>>)
        ELSE on_disk[n]]
LoadCells(on_disk, origin) ==
    [a \in {<<origin, n>> : n \in WithProps(on_disk)} |-> on_disk[a[2]]["properties"]]
\* yaml.dump of the schemas
DumpSchemas(in_memory, h) ==
    [n \in DOMAIN in_memory |->
        IF Has(in_memory[n], "properties")
        THEN Put(in_memory[n], "properties", h[in_memory[n]["properties"]])
        ELSE in_memory[n]]
\* the definitions of the schema file as a mapping
FileDefs(file) == [k \in {file[i].key : i \in 1..Len(file)} |->
                      file[CHOOSE i \in 1..Len(file) : file[i].key = k].def]

(***************************************************************************)
(* The inputs tried: the definitions of the JSON schema file and the       *)
(* schemas and info of the Swagger document.                               *)
(***************************************************************************)
DefinitionPool == <<
    [key |-> "Date8",
     def |-> [type |-> "string", pattern |-> "^[0-9]{8}$",
              description |-> "Date in YYYYMMDD format"]],
    [key |-> "Time6",
     def |-> [type |-> "string", pattern |-> "^[0-9]{6}$", format |-> "time"]],
    [key |-> "String15",
     def |-> [type |-> "string", maxLength |-> 15]],
    [key |-> "string15",
     def |-> [type |-> "string", minLength |-> 1, maxLength |-> 15]],
    [key |-> "SrcType",
     def |-> [type |-> "string", enum |-> <<"D", "I">>]],
    [key |-> "supconfirm",
     def |-> [type |-> "string", enum |-> <<"Y", "N">>, pattern |-> "^[YN]$",
              minLength |-> 1, maxLength |-> 1, description |-> "Confirmation flag"]],
    [key |-> "MgmtCodeType",
     def |-> [type |-> "object",
              properties |-> ("TradeDate" :> [description |-> "Trade date"])]],
    [key |-> "ErrorCode",
     def |-> [type |-> "string", pattern |-> "^[A-Z]{2}$", maxLength |-> 2]] >>

SchemaPool ==
    ("Order" :> [type |-> "object",
                 properties |->
                    ("TradeDateTime" :> [type |-> "string", minLength |-> 1,
                                         description |-> "Trade timestamp",
                                         example |-> "20240101120000",
                                         externalDocs |-> [url |-> "https://example.com/ts"]])
                 @@ ("FundAcctID" :> [description |-> "Fund account"])
                 @@ ("Notes" :> [type |-> "string", maxLength |-> 200, description |-> ""])])
 @@ ("TradeDate" :> [type |-> "string", description |-> "Trade date"])
 @@ ("Date" :> [type |-> "string", pattern |-> "^old$", example |-> "20240101"])
 @@ ("SupConfirm" :> [type |-> "string", enum |-> <<"Y">>,
                      description |-> "Supplier confirmation"])
 @@ ("SrcType" :> [type |-> "object",
                   properties |-> ("Code" :> [type |-> "string", description |-> "Source code"])])
 @@ ("ErrorCode" :> [type |-> "string", pattern |-> "^E[0-9]+$"])
 @@ ("Payload" :> [type |-> "object", additionalProperties |-> TRUE])
 @@ ("Legacy" :> Scalar("see Order"))

\* the 'info' section of the document; EmptyDict stands for a document without one
InfoPool == {
    [title |-> "Buy Order API", description |-> <<"Buy orders">>],
    [title |-> "Sell or Buy API"],
    EmptyDict }

RECURSIVE Pick(_, _, _)
\* the entries of seq at the indices S, from index i on, in order
Pick(seq, S, i) ==
    IF i > Len(seq) THEN <<>>
    ELSE (IF i \in S THEN <<seq[i]>> ELSE <<>>) \o Pick(seq, S, i + 1)

SchemaFiles ==
    {Pick(DefinitionPool, S, 1) :
        S \in {T \in SUBSET (1..Len(DefinitionPool)) : Cardinality(T) <= MaxDefinitions}}

SwaggerFiles ==
    {(IF S = {} THEN EmptyDict ELSE ("schemas" :> [n \in S |-> SchemaPool[n]]))
     @@ (IF i = EmptyDict THEN EmptyDict ELSE ("info" :> i)) :
        S \in {T \in SUBSET DOMAIN SchemaPool : Cardinality(T) <= MaxSchemas},
        i \in InfoPool}

PatternOff ==
    /\ pat_in = <<>>
    /\ pat_once = <<>>
    /\ pat_twice = <<>>
    /\ pat_pc = "off"

\* lines 38-41: __init__; the files and the flag are the arguments of the runs
Init ==
    /\ PatternOff
    /\ ConverterOff
    /\ BatchOff
    /\ swagger_file \in SwaggerFiles
    /\ schema_file \in SchemaFiles
    /\ strict_mode \in BOOLEAN
    /\ schema_mappings = <<>>
    /\ validation_patterns = EmptyDict
    /\ applied_enhancements = <<>>
    /\ swagger_data = EmptyDict
    /\ heap = EmptyDict
    /\ pc = "idle"
    /\ runs = 0

RECURSIVE ExtractMappings(_, _, _)
\* lines 115-116, from definition i on
ExtractMappings(reg, file, i) ==
    IF i > Len(file) THEN reg
    ELSE ExtractMappings(
            RegPut(reg, file[i].key,
                   IF Has(file[i].def, "properties")
                   THEN Put(file[i].def, "properties", RegCell(file[i].key))
                   ELSE file[i].def),
            file, i + 1)

\* lines 48-56 and 112-122: load both files, _extract_schema_definitions
ExtractSchemaDefinitions ==
    /\ pc = "idle"
    /\ runs < MaxRuns
    /\ swagger_data' =
         IF Has(swagger_file, "schemas")
         THEN Put(swagger_file, "schemas", LoadSchemas(swagger_file["schemas"], "doc"))
         ELSE swagger_file
    /\ schema_mappings' = ExtractMappings(schema_mappings, schema_file, 1)
    /\ validation_patterns' =
         LET defs == FileDefs(schema_file)
             with_pattern == {k \in DOMAIN defs : Has(defs[k], "pattern")}
         IN  [k \in DOMAIN validation_patterns \cup with_pattern |->
                IF k \in with_pattern THEN defs[k]["pattern"] ELSE validation_patterns[k]]
    /\ heap' =
         LET kept == {a \in DOMAIN heap :
                        /\ a[1] = "reg"
                        /\ a[2] \in RegKeys(schema_mappings)
                        /\ a[2] \notin DOMAIN FileDefs(schema_file)}
         IN  LoadCells(SchemasOf(swagger_file), "doc")
             @@ LoadCells(FileDefs(schema_file), "reg")
             @@ [a \in kept |-> heap[a]]
    /\ pc' = "components"
    /\ UNCHANGED <<batchVars, convVars, patVars, fileVars, applied_enhancements, runs>>

\* lines 126-134 and 141-181: create components.schemas when missing,
\* _add_base_validation_types, which ends with _add_enum_types
AddBaseValidationTypes ==
    /\ pc = "components"
    /\ swagger_data' =
         Put(swagger_data, "schemas",
             AddEnumTypes(AddBaseTypes(schema_mappings, SchemasOf(swagger_data))))
    /\ applied_enhancements' =
         Append(applied_enhancements,
                <<"Added base validation types",
                  Cardinality(AllSchemaTypes \cap RegKeys(schema_mappings))>>)
    /\ pc' = "enhance"
    /\ UNCHANGED <<batchVars, convVars, patVars, fileVars, schema_mappings, validation_patterns, heap, runs>>

\* lines 136-139 and 231-263: _enhance_existing_schemas, for every schema
\* _enhance_schema_object (with _enhance_property) then _enhance_top_level_schema
EnhanceExistingSchemas ==
    /\ pc = "enhance"
    /\ LET schemas == swagger_data["schemas"]
           enhanced == [n \in DOMAIN schemas |->
                           IF IsDict(schemas[n])
                           THEN EnhanceTopLevelSchema(schema_mappings, n,
                                    EnhanceSchemaObject(schemas[n], strict_mode))
                           ELSE schemas[n]]
           \* line 245: schema != original_schema, both holding the same properties object
           enhanced_count == Cardinality({n \in DOMAIN schemas : enhanced[n] # schemas[n]})
       IN  /\ swagger_data' = Put(swagger_data, "schemas", enhanced)
           /\ heap' = [a \in DOMAIN heap |->
                        IF a \in WalkedCells(schemas)
                        THEN [p \in DOMAIN heap[a] |->
                                EnhanceProperty(schema_mappings, p, heap[a][p])]
                        ELSE heap[a]]
           /\ applied_enhancements' =
                applied_enhancements
                \o (IF enhanced_count > 0
                    THEN << <<"Enhanced existing schemas", enhanced_count>> >>
                    ELSE <<>>)
                \o << <<"Enhanced component schemas with validation">> >>
    /\ pc' = "fields"
    /\ UNCHANGED <<batchVars, convVars, patVars, fileVars, schema_mappings, validation_patterns, runs>>

\* lines 444-473: _apply_field_validations; _apply_string_validations does nothing
ApplyFieldValidations ==
    /\ pc = "fields"
    /\ applied_enhancements' =
         Append(applied_enhancements, <<"Applied field-level validations">>)
    /\ pc' = "trxn"
    /\ UNCHANGED <<batchVars, convVars, patVars, fileVars, schema_mappings, validation_patterns,
                   swagger_data, heap, runs>>

\* line 477: swagger_data.get('info', {}).get('title', ''), as characters
ApiTitle(data) ==
    IF Has(data, "info") /\ Has(data["info"], "title")
    THEN Spelling[data["info"]["title"]] ELSE <<>>

\* lines 489-490: the transaction types whose keyword is in the title
TitleHits(data) ==
    {i \in 1..Len(TransactionTypes) :
        Contains(Lower(ApiTitle(data)), LowerSpelling[TransactionTypes[i].api_type])}

\* lines 489-495 without the break of line 495: every keyword in the title
FirstTitleHitNoBreak(data) == TitleHits(data)

\* lines 489-495: the loop stops at the first keyword found in the title
FirstTitleHit(data) ==
    IF TitleHits(data) = {} THEN {} ELSE {Min(TitleHits(data))}

\* lines 475-498: _add_transaction_type_validations
AddTransactionTypeValidations ==
    /\ pc = "trxn"
    /\ swagger_data' =
         IF Has(swagger_data, "schemas")
         THEN LET schemas == swagger_data["schemas"]
                  written == {TransactionTypes[i].name : i \in FirstTitleHit(swagger_data)}
              IN  Put(swagger_data, "schemas",
                      [n \in DOMAIN schemas \cup written |->
                         IF n \in written
                         THEN TransactionTypes[
                                CHOOSE i \in 1..Len(TransactionTypes) :
                                    TransactionTypes[i].name = n].def
                         ELSE schemas[n]])
         ELSE swagger_data
    /\ applied_enhancements' =
         Append(applied_enhancements, <<"Added API-specific transaction type validation">>)
    /\ pc' = "errors"
    /\ UNCHANGED <<batchVars, convVars, patVars, fileVars, schema_mappings, validation_patterns, heap, runs>>

\* lines 521-523 with the test of line 522 dropped: every error schema is written
InsertErrorSchemasOverwriting(schemas) ==
    [n \in DOMAIN schemas \cup DOMAIN ErrorSchemas |->
        IF n \in DOMAIN ErrorSchemas THEN ErrorSchemas[n] ELSE schemas[n]]

\* lines 521-523: an error schema is written when its name is not a key yet
InsertErrorSchemas(schemas) ==
    [n \in DOMAIN schemas \cup DOMAIN ErrorSchemas |->
        IF n \in DOMAIN schemas THEN schemas[n] ELSE ErrorSchemas[n]]

\* lines 500-525: _enhance_error_schemas
EnhanceErrorSchemas ==
    /\ pc = "errors"
    /\ IF ~Has(swagger_data, "schemas")
       THEN UNCHANGED <<swagger_data, applied_enhancements>>
       ELSE /\ swagger_data' =
                 Put(swagger_data, "schemas", InsertErrorSchemas(swagger_data["schemas"]))
            /\ applied_enhancements' =
                 Append(applied_enhancements, <<"Enhanced error handling schemas">>)
    /\ pc' = "docs"
    /\ UNCHANGED <<batchVars, convVars, patVars, fileVars, schema_mappings, validation_patterns, heap, runs>>

\* lines 527-543: _add_schema_documentation
AddSchemaDocumentation ==
    /\ pc = "docs"
    /\ LET info == IF Has(swagger_data, "info") THEN swagger_data["info"] ELSE EmptyDict
           original_description ==
               IF Has(info, "description") THEN info["description"] ELSE <<>>
           described ==
               IF ~Contains(original_description, <<EnhancementNote>>)
               THEN Put(info, "description", Append(original_description, EnhancementNote))
               ELSE info
           versioned ==
               IF ~Has(described, "x-schema-version")
               THEN Put(described, "x-schema-version", "XML-aligned-v1.0")
               ELSE described
       IN  swagger_data' = Put(swagger_data, "info", versioned)
    /\ applied_enhancements' =
         Append(applied_enhancements, <<"Added comprehensive documentation">>)
    /\ pc' = "save"
    /\ UNCHANGED <<batchVars, convVars, patVars, fileVars, schema_mappings, validation_patterns, heap, runs>>

\* lines 73-81 and 103-110: _save_yaml_file.  The next call on the same applier
\* object is given the output as its document, and the same schema file or one
\* without definitions.
SaveYamlFile ==
    /\ pc = "save"
    /\ swagger_file' =
         Put(swagger_data, "schemas", DumpSchemas(swagger_data["schemas"], heap))
    /\ schema_file' \in {schema_file, <<>>}
    /\ pc' = "idle"
    /\ runs' = runs + 1
    /\ UNCHANGED <<batchVars, convVars, patVars, strict_mode, applierVars, swagger_data, heap>>

Next ==
    \/ ExtractSchemaDefinitions
    \/ AddBaseValidationTypes
    \/ EnhanceExistingSchemas
    \/ ApplyFieldValidations
    \/ AddTransactionTypeValidations
    \/ EnhanceErrorSchemas
    \/ AddSchemaDocumentation
    \/ SaveYamlFile

Spec == Init /\ [][Next]_vars

(***************************************************************************)
(* Properties of the applier, checked under Spec                           *)
(***************************************************************************)
MetadataKeys == {"description", "example", "externalDocs"}

\* the step of a run in which _enhance_existing_schemas runs
EnhanceStep == pc = "enhance" /\ pc' = "fields"

\* the properties dict objects the loaded document holds
DocumentCells == {SchemasOf(swagger_data)[n]["properties"] : n \in WithProps(SchemasOf(swagger_data))}

\* the field-mapping entries whose substring occurs in name, resolved or not
SubstringMatches(name) ==
    {i \in 1..Len(FieldMappings) : Contains(Spelling[name], Spelling[FieldMappings[i][1]])}

\* the registry record the canonical type of field-mapping entry i resolves to
ResolvedRecord(i) ==
    RegGet(schema_mappings, FindSchemaKeyCaseInsensitive(schema_mappings, FieldMappings[i][2])[1])

Resolves(i) == FindSchemaKeyCaseInsensitive(schema_mappings, FieldMappings[i][2]) # <<>>

\* C4: every non-empty description, example and externalDocs of a property node
\* of the document is the same after each step of a run as before it, matched
\* or not.
C4_MetadataPreserved ==
    [][pc \notin {"idle", "off"} =>
        \A a \in DocumentCells : \A p \in DOMAIN heap[a] : \A k \in MetadataKeys :
            Truthy(heap[a][p], k) =>
                /\ Has(heap'[a][p], k)
                /\ heap'[a][p][k] = heap[a][p][k]]_vars

\* C4 witness: a property with a description matched 'Date', took the pattern of
\* Date8, whose record has another description, and kept its own.
C4_Witness ==
    /\ pc = "fields"
    /\ "Date8" \in RegKeys(schema_mappings)
    /\ Has(RegGet(schema_mappings, "Date8"), "description")
    /\ Has(swagger_data["schemas"], "Order")
    /\ LET node == heap[swagger_data["schemas"]["Order"]["properties"]]["TradeDateTime"]
       IN  /\ Has(node, "pattern")
           /\ node["pattern"] = RegGet(schema_mappings, "Date8")["pattern"]
           /\ node["description"] = "Trade timestamp"
           /\ node["example"] = "20240101120000"
           /\ node["externalDocs"] = [url |-> "https://example.com/ts"]

\* C5: a property is merged from the canonical type of the first field-mapping
\* entry whose substring occurs in its name and from no other entry: when that
\* type does not resolve the property is left as it was.
C5_FirstMatchOnly ==
    [][EnhanceStep =>
        \A a \in WalkedCells(swagger_data["schemas"]) : \A p \in DOMAIN heap[a] :
            IF SubstringMatches(p) # {} /\ Resolves(Min(SubstringMatches(p)))
            THEN \A k \in PropertyKeys \cap DOMAIN ResolvedRecord(Min(SubstringMatches(p))) :
                    /\ Has(heap'[a][p], k)
                    /\ heap'[a][p][k] = ResolvedRecord(Min(SubstringMatches(p)))[k]
            ELSE heap'[a][p] = heap[a][p]]_vars

\* C6: when a property is resolved to a record, each of type, pattern, minLength,
\* maxLength, enum, format that the record has is copied onto the property, and
\* each one the record lacks stays on the property as it was, present or absent.
C6_CopiesPresentFieldsOnly ==
    [][EnhanceStep =>
        \A a \in WalkedCells(swagger_data["schemas"]) : \A p \in DOMAIN heap[a] :
            PropertyHits(schema_mappings, p) # {} =>
                LET record == ResolvedRecord(Min(PropertyHits(schema_mappings, p)))
                IN  \A k \in PropertyKeys :
                        IF Has(record, k)
                        THEN Has(heap'[a][p], k) /\ heap'[a][p][k] = record[k]
                        ELSE /\ Has(heap'[a][p], k) <=> Has(heap[a][p], k)
                             /\ Has(heap[a][p], k) => heap'[a][p][k] = heap[a][p][k]]_vars

\* C6 witness: FundAcctID, which had only a description, enhanced from
\* String15 = {type string, maxLength 15}.
C6_Witness ==
    /\ pc = "fields"
    /\ "String15" \in RegKeys(schema_mappings)
    /\ Has(swagger_data["schemas"], "Order")
    /\ heap[swagger_data["schemas"]["Order"]["properties"]]["FundAcctID"]
         = [type |-> "string", maxLength |-> 15, description |-> "Fund account"]

\* C7: for a top-level string schema that matches no field-mapping entry and
\* whose name is a registry key up to case, the enrichment leaves every enum,
\* pattern, minLength, maxLength and description the schema already has.
C7_FallbackFillsAbsentOnly ==
    [][EnhanceStep =>
        \A n \in DOMAIN swagger_data["schemas"] :
            LET schema == swagger_data["schemas"][n]
            IN  (/\ Has(schema, "type") /\ schema["type"] = "string"
                 /\ SubstringMatches(n) = {}
                 /\ FindSchemaKeyCaseInsensitive(schema_mappings, n) # <<>>)
                => \A k \in {"enum", "pattern", "minLength", "maxLength", "description"} :
                        Has(schema, k) =>
                            /\ Has(swagger_data'["schemas"][n], k)
                            /\ swagger_data'["schemas"][n][k] = schema[k]]_vars

\* C8: a top-level string schema is resolved like a nested property: the first
\* field-mapping entry whose substring occurs in its name selects the record
\* its constraints come from, also when the name only contains the substring.
C8_TopLevelSubstringMatch ==
    [][EnhanceStep =>
        \A n \in DOMAIN swagger_data["schemas"] :
            LET schema == swagger_data["schemas"][n]
            IN  (/\ Has(schema, "type") /\ schema["type"] = "string"
                 /\ SubstringMatches(n) # {}
                 /\ Resolves(Min(SubstringMatches(n))))
                => \A k \in TopLevelKeys \cap DOMAIN ResolvedRecord(Min(SubstringMatches(n))) :
                        /\ Has(swagger_data'["schemas"][n], k)
                        /\ swagger_data'["schemas"][n][k]
                             = ResolvedRecord(Min(SubstringMatches(n)))[k]]_vars

\* the registry as a reader sees it: every record with its nested properties
RegistryView(reg, h) ==
    [i \in 1..Len(reg) |->
        [key |-> reg[i].key,
         def |-> IF Has(reg[i].def, "properties")
                 THEN Put(reg[i].def, "properties", h[reg[i].def["properties"]])
                 ELSE reg[i].def]]

\* C9: once the registry is built, no step of the run changes a registry record
\* or its nested properties.
C9_RegistryNeverMutated ==
    [][pc \notin {"idle", "off"} =>
        RegistryView(schema_mappings', heap') = RegistryView(schema_mappings, heap)]_vars

\* C10: right after _add_enum_types, in the first run and in the next, each of
\* its seven names holds the overlay's definition.
C10_EnumOverlayOverwrites ==
    pc = "enhance" =>
        \A n \in DOMAIN Enums :
            /\ Has(swagger_data["schemas"], n)
            /\ swagger_data["schemas"][n] = Enums[n]

\* C10 witness: the overlay applied a second time, over a document whose
\* SrcType was not the overlay's.
C10_Witness ==
    /\ pc = "enhance"
    /\ runs = 1
    /\ Has(SchemasOf(swagger_file), "SrcType")
    /\ swagger_file["schemas"]["SrcType"]["enum"] # Enums["SrcType"]["enum"]
    /\ swagger_data["schemas"]["SrcType"] = Enums["SrcType"]

\* the step of a run in which _enhance_error_schemas runs
ErrorStep == pc = "errors" /\ pc' = "docs"

\* C11: _enhance_error_schemas leaves every schema the document already has as
\* it was, ErrorCode and CorrlatnID included, adds those two names with their
\* fixed definitions when they are missing, and changes nothing in a later run,
\* when both names are present.
C11_ErrorOverlayInsertIfAbsent ==
    [][(ErrorStep /\ Has(swagger_data, "schemas")) =>
        LET before == swagger_data["schemas"]
            after == swagger_data'["schemas"]
        IN  /\ DOMAIN after = DOMAIN before \cup DOMAIN ErrorSchemas
            /\ \A n \in DOMAIN before : after[n] = before[n]
            /\ \A n \in DOMAIN ErrorSchemas \ DOMAIN before : after[n] = ErrorSchemas[n]
            /\ runs >= 1 => after = before]_vars

\* C11 witness: the second run has passed the overlay; the document came with
\* its own ErrorCode, which is still as it was, and CorrlatnID is the overlay's.
C11_Witness ==
    /\ pc = "docs"
    /\ runs = 1
    /\ swagger_data["schemas"]["ErrorCode"] = SchemaPool["ErrorCode"]
    /\ SchemaPool["ErrorCode"] # ErrorSchemas["ErrorCode"]
    /\ swagger_data["schemas"]["CorrlatnID"] = ErrorSchemas["CorrlatnID"]

\* the step of a run in which _add_transaction_type_validations runs
TrxnStep == pc = "trxn" /\ pc' = "errors"

\* C12: _add_transaction_type_validations writes TrxnTyp<keyword> for the first
\* of Buy, Sell, Switch, Transfer, ICT that the title contains up to case, and
\* neither writes nor changes any other schema; with no keyword in the title
\* the schemas stay as they were.  For a title with Buy the schema written is a
\* string with enum ['1'].
C12_AtMostOneTransactionType ==
    [][(TrxnStep /\ Has(swagger_data, "schemas")) =>
        LET before == swagger_data["schemas"]
            after == swagger_data'["schemas"]
            hits == {i \in 1..Len(TransactionTypes) :
                        Contains(Lower(ApiTitle(swagger_data)),
                                 Lower(Spelling[TransactionTypes[i].api_type]))}
            touched == {n \in DOMAIN after : n \notin DOMAIN before \/ after[n] # before[n]}
        IN  /\ DOMAIN before \subseteq DOMAIN after
            /\ Cardinality(DOMAIN after \ DOMAIN before) <= 1
            /\ IF hits = {} THEN after = before
               ELSE LET first == TransactionTypes[Min(hits)]
                    IN  /\ touched \subseteq {first.name}
                        /\ after[first.name] = first.def
                        /\ \A i \in hits \ {Min(hits)} :
                              LET later == TransactionTypes[i].name
                              IN  /\ Has(after, later) <=> Has(before, later)
                                  /\ Has(before, later) => after[later] = before[later]
            /\ 1 \in hits =>
                  /\ after["TrxnTypBuy"]["type"] = "string"
                  /\ after["TrxnTypBuy"]["enum"] = <<"1">>]_vars

\* C12 witness: the title holds Sell before Buy; TrxnTypBuy was written for Buy,
\* the first keyword of the fixed order, and TrxnTypSell was not.
C12_Witness ==
    /\ pc = "errors"
    /\ Cardinality(TitleHits(swagger_data)) > 1
    /\ Has(swagger_data["schemas"], "TrxnTypBuy")
    /\ swagger_data["schemas"]["TrxnTypBuy"]["enum"] = <<"1">>
    /\ ~Has(swagger_data["schemas"], "TrxnTypSell")

(***************************************************************************)
(* xsd-to-json-schema.py: XSDToJSONSchemaConverter, one type of            *)
(* schema.types at a time.  A type name is a sequence of characters; the   *)
(* type object is a dict of the attributes it exposes (hasattr is Has).    *)
(***************************************************************************)

\* Python's None where a name is expected
None == <<"None">>

\* the outcome of a call that raises
Raised == <<"raise">>

UpperChar(c) ==
    IF \E i \in 1..Len(LowerLetters) : LowerLetters[i] = c
    THEN UpperLetters[CHOOSE i \in 1..Len(LowerLetters) : LowerLetters[i] = c]
    ELSE c

Max(S) == CHOOSE x \in S : \A y \in S : x >= y

\* line 434: xsd_name.split(':')[-1]
AfterLastColon(s) ==
    LET colons == {i \in 1..Len(s) : s[i] = ":"}
    IN  IF colons = {} THEN s ELSE SubSeq(s, Max(colons) + 1, Len(s))

\* lines 437-456: conversions, lower-case key to canonical name
Conversions ==
    (<<"s","t","r","i","n","g","2","-","2","0">> :> <<"S","t","r","i","n","g","2","T","o","2","0">>)
 @@ (<<"s","t","r","i","n","g","3","-","5">> :> <<"S","t","r","i","n","g","3","T","o","5">>)
 @@ (<<"s","t","r","i","n","g","5","-","7">> :> <<"S","t","r","i","n","g","5","T","o","7">>)
 @@ (<<"s","t","r","i","n","g","2","-","8","0">> :> <<"S","t","r","i","n","g","2","T","o","8","0">>)
 @@ (<<"a","l","p","h","a","3","-","4">> :> <<"A","l","p","h","a","3","T","o","4">>)
 @@ (<<"a","l","p","h","a","n","u","m","1","-","5">> :> <<"A","l","p","h","a","N","u","m","1","T","o","5">>)
 @@ (<<"a","m","t","9","v","2","n">> :> <<"A","m","t","9","V","2","N">>)
 @@ (<<"p","e","r","c","e","n","t","2","v","3">> :> <<"P","e","r","c","e","n","t","2","V","3">>)
 @@ (<<"p","e","r","c","e","n","t","3","v","2">> :> <<"P","e","r","c","e","n","t","3","V","2">>)
 @@ (<<"v","a","l","u","e","1","4">> :> <<"V","a","l","u","e","1","4">>)
 @@ (<<"d","a","t","e","8">> :> <<"D","a","t","e","8">>)
 @@ (<<"t","i","m","e","6">> :> <<"T","i","m","e","6">>)
 @@ (<<"i","n","t","e","g","e","r","3">> :> <<"I","n","t","e","g","e","r","3">>)
 @@ (<<"i","n","t","e","g","e","r","5">> :> <<"I","n","t","e","g","e","r","5">>)
 @@ (<<"l","e","n","g","t","h","4">> :> <<"L","e","n","g","t","h","4">>)
 @@ (<<"s","i","n","t","y","p","e">> :> <<"S","I","N","T","y","p","e">>)
 @@ (<<"y","e","s","1">> :> <<"Y","e","s","1">>)
 @@ (<<"y","e","s","n","o","1">> :> <<"Y","e","s","N","o","1">>)

\* line 462: the characters [_\-\s] that separate words
Separators == {"_", "-", " "}

\* lines 462-463: re.split(r'[_\-\s]+', name), then the non-empty words
\* capitalized (first character upper, the others lower) and joined
PascalCase(s) ==
    LET kept == SelectSeq([i \in 1..Len(s) |-> i], LAMBDA i : s[i] \notin Separators)
    IN  [k \in 1..Len(kept) |->
            IF kept[k] = 1 \/ s[kept[k] - 1] \in Separators
            THEN UpperChar(s[kept[k]])
            ELSE LowerChar(s[kept[k]])]

\* Variant of LookupConversion: the table is searched with the name as written.
LookupConversionCaseSensitive(local) ==
    IF local \in DOMAIN Conversions THEN <<Conversions[local]>> ELSE <<>>

\* lines 458-459: the canonical name of the lower-cased name, if the table has it
LookupConversion(local) ==
    IF Lower(local) \in DOMAIN Conversions THEN <<Conversions[Lower(local)]>> ELSE <<>>

\* Variant of ConvertTypeName: no test for an empty name; ':' in None raises.
ConvertTypeNameUnguarded(name) ==
    IF name = None THEN Raised
    ELSE LET local == IF HasChar(name, ":") THEN AfterLastColon(name) ELSE name
         IN  IF LookupConversion(local) # <<>>
             THEN LookupConversion(local)[1]
             ELSE PascalCase(local)

\* lines 427-463: _convert_type_name
ConvertTypeName(name) ==
    IF name = None \/ name = <<>> THEN <<"U","n","k","n","o","w","n","T","y","p","e">>
    ELSE LET local == IF HasChar(name, ":") THEN AfterLastColon(name) ELSE name
         IN  IF LookupConversion(local) # <<>>
             THEN LookupConversion(local)[1]
             ELSE PascalCase(local)

\* the type names tried: every short name over NameAlphabet, and NamePool
NameAlphabet == {"a", "B", "1", ":", "-", "_", " "}

NamePool == {
    None,
    <<"s","t","r","i","n","g","3","-","5">>,
    <<"S","T","R","I","N","G","3","-","5">>,
    <<"x","s",":","s","t","r","i","n","g","3","-","5">>,
    <<"S","t","r","i","n","g","3","-","5">>,
    <<"t","n","s",":","Y","e","s","N","o","1">>,
    <<"m","y","_","t","y","p","e","-","n","a","m","e">>,
    <<"x","s",":">>,
    <<"a",":","b",":","d","a","t","e","8">>,
    <<"o","r","d","e","r","T","y","p","e">> }

TypeNames == SeqsUpTo(NameAlphabet, MaxNameLen) \cup NamePool

(***************************************************************************)
(* _convert_simple_type and _apply_facets.  Facet values are the integers  *)
(* and strings the schema parser hands over, so int() and str() return     *)
(* their argument.  <<>> stands for None and '' where a pattern value is   *)
(* expected: both are false in a condition.                                *)
(***************************************************************************)

\* Variant of ApplyFacets: the minLength facet is written to maxLength and the
\* maxLength facet to minLength.
ApplyFacetsSwapped(jt, facets) ==
    LET a == IF Has(facets, "minLength") THEN Put(jt, "maxLength", facets["minLength"]) ELSE jt
        b == IF Has(facets, "maxLength") THEN Put(a, "minLength", facets["maxLength"]) ELSE a
        c == IF Has(facets, "length")
             THEN Put(Put(b, "minLength", facets["length"]), "maxLength", facets["length"])
             ELSE b
        d == IF Has(facets, "pattern")
             THEN Put(c, "pattern", ConvertXsdPatternToJson(facets["pattern"]))
             ELSE c
    IN  IF Has(facets, "enumeration") THEN Put(d, "enum", facets["enumeration"]) ELSE d

\* lines 322-345: _apply_facets
ApplyFacets(jt, facets) ==
    LET a == IF Has(facets, "minLength") THEN Put(jt, "minLength", facets["minLength"]) ELSE jt
        b == IF Has(facets, "maxLength") THEN Put(a, "maxLength", facets["maxLength"]) ELSE a
        c == IF Has(facets, "length")
             THEN Put(Put(b, "minLength", facets["length"]), "maxLength", facets["length"])
             ELSE b
        d == IF Has(facets, "pattern")
             THEN Put(c, "pattern", ConvertXsdPatternToJson(facets["pattern"]))
             ELSE c
    IN  IF Has(facets, "enumeration") THEN Put(d, "enum", facets["enumeration"]) ELSE d

\* lines 152, 159: hasattr(obj, 'facets') and obj.facets
HasFacets(obj) == Has(obj, "facets") /\ DOMAIN obj["facets"] # {}

RECURSIVE ApplyRestrictions(_, _, _)
\* lines 158-161: the loop over type_obj.restrictions, from restriction i on
ApplyRestrictions(jt, restrictions, i) ==
    IF i > Len(restrictions) THEN jt
    ELSE ApplyRestrictions(
            IF HasFacets(restrictions[i]) THEN ApplyFacets(jt, restrictions[i]["facets"]) ELSE jt,
            restrictions, i + 1)

\* lines 168-188: the constraint names the loop of method 3 acts on
ConstraintNames == {"enumeration", "pattern", "minLength", "maxLength", "length"}

\* lines 168-188: one constraint of type_obj.constraints
ApplyConstraint(jt, constraint_name, constraint_value) ==
    CASE constraint_name = "enumeration" -> Put(jt, "enum", constraint_value)
      [] constraint_name = "pattern" ->
            Put(jt, "pattern", ConvertXsdPatternToJson(constraint_value))
      [] constraint_name = "minLength" -> Put(jt, "minLength", constraint_value)
      [] constraint_name = "maxLength" -> Put(jt, "maxLength", constraint_value)
      [] constraint_name = "length" ->
            Put(Put(jt, "minLength", constraint_value), "maxLength", constraint_value)
      [] OTHER -> jt

RECURSIVE ApplyConstraints(_, _, _)
\* lines 167-188: the loop over constraints.items(), from item i on
ApplyConstraints(jt, constraints, i) ==
    IF i > Len(constraints) THEN jt
    ELSE ApplyConstraints(ApplyConstraint(jt, constraints[i][1], constraints[i][2]),
                          constraints, i + 1)

\* lines 198-201: hasattr(validator, 'enumeration') and validator.enumeration
HasEnumeration(validator) ==
    Has(validator, "enumeration") /\ Len(validator["enumeration"]) > 0

\* lines 204-239: the branch on type(validator).__name__
ApplyFacetValidator(jt, validator) ==
    CASE validator["kind"] = "XsdPatternFacets" ->
            IF Has(validator, "patterns")
            THEN IF Len(validator["patterns"]) > 0
                 THEN Put(jt, "pattern", ConvertXsdPatternToJson(validator["patterns"][1]))
                 ELSE jt
            ELSE IF Has(validator, "regexps")
            THEN IF Len(validator["regexps"]) > 0
                 THEN Put(jt, "pattern", ConvertXsdPatternToJson(validator["regexps"][1]))
                 ELSE jt
            ELSE IF Has(validator, "value")
            THEN Put(jt, "pattern", ConvertXsdPatternToJson(validator["value"]))
            ELSE jt
      [] validator["kind"] = "XsdMinLengthFacet" /\ Has(validator, "value") ->
            Put(jt, "minLength", validator["value"])
      [] validator["kind"] = "XsdMaxLengthFacet" /\ Has(validator, "value") ->
            Put(jt, "maxLength", validator["value"])
      [] validator["kind"] = "XsdLengthFacet" /\ Has(validator, "value") ->
            Put(Put(jt, "minLength", validator["value"]), "maxLength", validator["value"])
      [] OTHER -> jt

\* lines 193-239: one validator of method 4
ApplyValidator(jt, validator) ==
    ApplyFacetValidator(
        IF HasEnumeration(validator) THEN Put(jt, "enum", validator["enumeration"]) ELSE jt,
        validator)

RECURSIVE ApplyValidators(_, _, _)
\* lines 193-239: the loop over type_obj.validators, from validator i on
ApplyValidators(jt, validators, i) ==
    IF i > Len(validators) THEN jt
    ELSE ApplyValidators(ApplyValidator(jt, validators[i]), validators, i + 1)

\* lines 198-239: the validator makes method 4 set facets_found
ValidatorFound(validator) ==
    \/ HasEnumeration(validator)
    \/ /\ validator["kind"] = "XsdPatternFacets"
       /\ \/ Has(validator, "patterns") /\ Len(validator["patterns"]) > 0
          \/ ~Has(validator, "patterns") /\ Has(validator, "regexps")
               /\ Len(validator["regexps"]) > 0
          \/ ~Has(validator, "patterns") /\ ~Has(validator, "regexps")
               /\ Has(validator, "value")
    \/ /\ validator["kind"] \in {"XsdMinLengthFacet", "XsdMaxLengthFacet", "XsdLengthFacet"}
       /\ Has(validator, "value")

\* lines 245-258: the value recovered from a node of type_obj.patterns; the
\* node's "str" is the text that value=["']([^"']+)["'] finds in str(pat)
PatternValue(pat) ==
    IF Has(pat, "value") THEN pat["value"]
    ELSE IF Has(pat, "get") THEN pat["get"]
    ELSE IF Has(pat, "attrib") /\ Has(pat["attrib"], "value") THEN pat["attrib"]["value"]
    ELSE IF Has(pat, "str") THEN pat["str"]
    ELSE <<>>

\* lines 243-265: the index of the node the loop of method 5 breaks at, if any
RecoveredNodes(patterns) == {i \in 1..Len(patterns) : PatternValue(patterns[i]) # <<>>}

\* Variant of ApplyPatternNodes: the value of the first node is used whether
\* or not one was recovered.
ApplyPatternNodesUnguarded(jt, patterns) ==
    IF Len(patterns) > 0
    THEN Put(jt, "pattern", ConvertXsdPatternToJson(PatternValue(patterns[1])))
    ELSE jt

\* lines 243-265: the loop over type_obj.patterns, which stops at the first
\* node a value is recovered from
ApplyPatternNodes(jt, patterns) ==
    IF RecoveredNodes(patterns) # {}
    THEN Put(jt, "pattern",
             ConvertXsdPatternToJson(PatternValue(patterns[Min(RecoveredNodes(patterns))])))
    ELSE jt

\* lines 281-291: a validator of method 6 that carries a pattern
IsPatternFacet(validator) ==
    /\ validator["kind"] = "XsdPatternFacet"
    /\ (Has(validator, "value") \/ Has(validator, "pattern"))

RECURSIVE ApplyPatternFacets(_, _, _)
\* lines 279-291: the loop over type_obj.validators of method 6, from validator i on
ApplyPatternFacets(jt, validators, i) ==
    IF i > Len(validators) THEN jt
    ELSE ApplyPatternFacets(
            IF IsPatternFacet(validators[i])
            THEN Put(jt, "pattern",
                     ConvertXsdPatternToJson(
                        IF Has(validators[i], "value") THEN validators[i]["value"]
                        ELSE validators[i]["pattern"]))
            ELSE jt,
            validators, i + 1)

\* lines 294-309: the JSON type of the base type
BaseJsonType(jt, obj) ==
    IF Has(obj, "python_type")
    THEN CASE obj["python_type"] = "int" -> Put(jt, "type", "integer")
           [] obj["python_type"] = "float" -> Put(jt, "type", "number")
           [] obj["python_type"] = "bool" -> Put(jt, "type", "boolean")
           [] OTHER -> jt
    ELSE IF Has(obj, "base_type") /\ Has(obj["base_type"], "local_name")
    THEN CASE obj["base_type"]["local_name"] \in {"int", "integer", "long", "short"} ->
                Put(jt, "type", "integer")
           [] obj["base_type"]["local_name"] \in {"float", "double", "decimal"} ->
                Put(jt, "type", "number")
           [] obj["base_type"]["local_name"] \in {"boolean"} -> Put(jt, "type", "boolean")
           [] OTHER -> jt
    ELSE jt

(***************************************************************************)
(* _convert_complex_type.  An element or attribute name is a string; the   *)
(* name of its type is a sequence of characters, as for _convert_type_name.*)
(***************************************************************************)

\* lines 384-403: _get_property_type and _get_attribute_type, the same code
GetPropertyType(decl) ==
    IF Has(decl, "type") /\ Has(decl["type"], "name")
       /\ decl["type"]["name"] # None /\ decl["type"]["name"] # <<>>
    THEN ("$ref" :> (<<"#/definitions/">> \o ConvertTypeName(decl["type"]["name"])))
    ELSE [type |-> "string"]

RECURSIVE AddElementsTypedOnly(_, _, _)
\* Variant of AddElements: an element without a type gets no property.
AddElementsTypedOnly(properties, elements, i) ==
    IF i > Len(elements) THEN properties
    ELSE AddElementsTypedOnly(
            IF Has(elements[i], "type")
            THEN Put(properties, elements[i]["local_name"], GetPropertyType(elements[i]))
            ELSE properties,
            elements, i + 1)

RECURSIVE AddElements(_, _, _)
\* lines 360-364: the property of every element, from element i on
AddElements(properties, elements, i) ==
    IF i > Len(elements) THEN properties
    ELSE AddElements(
            Put(properties, elements[i]["local_name"], GetPropertyType(elements[i])),
            elements, i + 1)

RECURSIVE AddAttributes(_, _, _)
\* lines 372-374: the property of every attribute, from item i of attributes.items() on
AddAttributes(properties, attributes, i) ==
    IF i > Len(attributes) THEN properties
    ELSE AddAttributes(
            Put(properties, attributes[i][1], GetPropertyType(attributes[i][2])),
            attributes, i + 1)

\* line 367: hasattr(element, 'min_occurs') and element.min_occurs > 0
ElementRequired(element) ==
    Has(element, "min_occurs") /\ element["min_occurs"] > 0

\* line 376: hasattr(attr, 'use') and attr.use == 'required'
AttributeRequired(attr) ==
    Has(attr, "use") /\ attr["use"] = "required"

\* lines 359-368: the elements of type_obj.content.iter_elements(), if it has them
ElementsOf(obj) ==
    IF Has(obj, "content") /\ Has(obj["content"], "iter_elements")
    THEN obj["content"]["iter_elements"] ELSE <<>>

\* lines 371-377: the items of type_obj.attributes, if it has them
AttributesOf(obj) == IF Has(obj, "attributes") THEN obj["attributes"] ELSE <<>>

\* lines 356-377: required_fields, in the order of the appends
RequiredFields(obj) ==
    LET required_elements == SelectSeq(ElementsOf(obj), ElementRequired)
        required_attributes ==
            SelectSeq(AttributesOf(obj), LAMBDA item : AttributeRequired(item[2]))
    IN  [i \in 1..Len(required_elements) |-> required_elements[i]["local_name"]]
        \o [i \in 1..Len(required_attributes) |-> required_attributes[i][1]]

\* lines 347-382: _convert_complex_type
ConvertComplexType(obj, name) ==
    LET properties == AddAttributes(AddElements(EmptyDict, ElementsOf(obj), 1),
                                    AttributesOf(obj), 1)
        record == [type |-> "object", additionalProperties |-> FALSE,
                   properties |-> properties,
                   description |-> <<"Complex type: ">> \o name]
    IN  IF Len(RequiredFields(obj)) > 0
        THEN Put(record, "required", RequiredFields(obj))
        ELSE record

(***************************************************************************)
(* The types tried.  xmlschema.XMLSchema (line 43) accepts a schema only   *)
(* when the length facets of a type agree with each other and with those   *)
(* it inherits, so every minLength a type shows, by whatever attribute, is *)
(* at most its length, and its length at most every maxLength it shows.    *)
(***************************************************************************)
FacetsPool == <<
    [minLength |-> 2],
    [minLength |-> 3, maxLength |-> 5],
    [length |-> 4],
    [maxLength |-> 6, pattern |-> <<"A", "|", "A">>],
    [enumeration |-> <<"Y", "N">>, pattern |-> <<"A">>],
    [whiteSpace |-> "collapse"] >>

RestrictionPool == <<
    [facets |-> [minLength |-> 2, enumeration |-> <<"Y", "N">>]],
    [facets |-> [length |-> 4]],
    [facets |-> [maxLength |-> 6, pattern |-> <<"A", "|", "A">>]],
    [facets |-> [maxLength |-> 5, enumeration |-> <<"Y">>]],
    EmptyDict >>

\* type_obj.constraints, a dict in insertion order
ConstraintsPool == {
    << <<"minLength", 3>>, <<"maxLength", 5>> >>,
    << <<"length", 4>>, <<"minLength", 2>> >>,
    << <<"pattern", <<"A">> >> >>,
    << <<"enumeration", <<"N">> >> >>,
    << <<"whiteSpace", "collapse">> >>,
    <<>> }

ValidatorPool == <<
    [kind |-> "XsdMinLengthFacet", value |-> 3],
    [kind |-> "XsdMaxLengthFacet", value |-> 5],
    [kind |-> "XsdLengthFacet", value |-> 4],
    [kind |-> "XsdEnumerationFacets", enumeration |-> <<"Y">>],
    [kind |-> "XsdPatternFacets", patterns |-> << <<"A">>, <<"A", "|", "A">> >>],
    [kind |-> "XsdPatternFacets", regexps |-> << <<"A", "|", "A">> >>],
    [kind |-> "XsdPatternFacets", value |-> <<"A">>],
    [kind |-> "XsdPatternFacet", value |-> <<"A", "|", "A">>],
    [kind |-> "XsdPatternFacet", pattern |-> <<"A">>],
    [kind |-> "XsdWhiteSpaceFacet", value |-> "collapse"] >>

\* nodes of type_obj.patterns
PatternNodePool == <<
    [value |-> <<>>, get |-> <<"A">>],
    [get |-> <<>>],
    [attrib |-> EmptyDict],
    EmptyDict,
    [value |-> <<"A">>],
    [get |-> <<"A", "|", "A">>],
    [attrib |-> [value |-> <<"A">>]],
    [str |-> <<"A", "|", "A">>] >>

\* the entries of pool at up to MaxItems indices, in pool order
Picks(pool) ==
    {Pick(pool, S, 1) : S \in {T \in SUBSET (1..Len(pool)) : Cardinality(T) <= MaxItems}}

FacetsShapes ==
    {("facets" :> FacetsPool[i]) : i \in 1..Len(FacetsPool)} \cup {("facets" :> EmptyDict)}

RestrictionsShapes == {("restrictions" :> r) : r \in Picks(RestrictionPool)}

ConstraintsShapes ==
    {("base_type" :> [local_name |-> "string"]) @@ ("constraints" :> c) : c \in ConstraintsPool}

ValidatorsShapes == {("validators" :> v) : v \in Picks(ValidatorPool)}

PatternsShapes == {("patterns" :> p) : p \in Picks(PatternNodePool)}

\* python_type, or a base type with its local name; a base_type without a
\* local name stands for None as well
BaseShapes ==
    {("python_type" :> t) : t \in {"int", "float", "bool", "str"}}
    \cup {("base_type" :> [local_name |-> n]) : n \in {"string", "long", "decimal", "boolean"}}
    \cup {("base_type" :> EmptyDict)}

ShapeFamilies ==
    {FacetsShapes, RestrictionsShapes, ConstraintsShapes, ValidatorsShapes,
     PatternsShapes, BaseShapes, {EmptyDict}}

\* the simple types tried: a type exposes the attributes of two families
SimpleTypes ==
    {("is_simple" :> TRUE) @@ a @@ b :
        a \in UNION ShapeFamilies, b \in UNION ShapeFamilies}

ElementPool == <<
    [local_name |-> "id", min_occurs |-> 1,
     type |-> [name |-> <<"s","t","r","i","n","g","3","-","5">>]],
    [local_name |-> "amount", min_occurs |-> 0, type |-> [name |-> None]],
    [local_name |-> "note", min_occurs |-> 2] >>

\* items of type_obj.attributes
AttributePool == <<
    <<"id", [use |-> "required", type |-> [name |-> <<"x","s",":","d","a","t","e","8">>]]>>,
    <<"amount", [use |-> "required"]>>,
    <<"currency", [use |-> "optional"]>>,
    <<"lang", [use |-> "prohibited"]>> >>

ComplexTypes ==
    {("is_simple" :> FALSE) @@ c @@ a :
        c \in {("content" :> ("iter_elements" :> e)) : e \in Picks(ElementPool)}
              \cup {("content" :> EmptyDict), EmptyDict},
        a \in {("attributes" :> t) : t \in Picks(AttributePool)} \cup {EmptyDict}}

\* the name of a type that exposes something
TypedNames == {<<"s","t","r","i","n","g","3","-","5">>, <<"O","r","d","e","r">>}

\* convert_xsd_to_json_schema, lines 47-55: one type of schema.types is about
\* to be processed; the names vary over TypeNames for a type exposing nothing
ConverterInit ==
    /\ PatternOff
    /\ ApplierOff
    /\ BatchOff
    /\ definitions = EmptyDict
    /\ facets_found = FALSE
    /\ \/ /\ type_obj \in SimpleTypes
          /\ xsd_name \in (IF DOMAIN type_obj = {"is_simple"} THEN TypeNames ELSE TypedNames)
          /\ json_type = [type |-> "string"]
          /\ conv_pc = "facets"
       \/ /\ type_obj \in ComplexTypes
          /\ xsd_name \in TypedNames
          /\ json_type = EmptyDict
          /\ conv_pc = "complex"

\* lines 151-154: method 1, the facets attribute
DirectFacets ==
    /\ conv_pc = "facets"
    /\ IF HasFacets(type_obj)
       THEN /\ json_type' = ApplyFacets(json_type, type_obj["facets"])
            /\ facets_found' = TRUE
       ELSE UNCHANGED <<json_type, facets_found>>
    /\ conv_pc' = "restrictions"
    /\ UNCHANGED <<batchVars, patVars, fileVars, applierVars, runVars, xsd_name, type_obj, definitions>>

\* lines 156-161: method 2, the restrictions attribute
ViaRestrictions ==
    /\ conv_pc = "restrictions"
    /\ IF Has(type_obj, "restrictions")
       THEN /\ json_type' = ApplyRestrictions(json_type, type_obj["restrictions"], 1)
            /\ facets_found' =
                 (facets_found \/ \E i \in 1..Len(type_obj["restrictions"]) :
                                      HasFacets(type_obj["restrictions"][i]))
       ELSE UNCHANGED <<json_type, facets_found>>
    /\ conv_pc' = "constraints"
    /\ UNCHANGED <<batchVars, patVars, fileVars, applierVars, runVars, xsd_name, type_obj, definitions>>

\* lines 163-189: method 3, the constraints of a restriction type
RestrictionConstraints ==
    /\ conv_pc = "constraints"
    /\ IF Has(type_obj, "base_type") /\ Has(type_obj, "constraints")
       THEN /\ json_type' = ApplyConstraints(json_type, type_obj["constraints"], 1)
            /\ facets_found' =
                 (facets_found \/ \E i \in 1..Len(type_obj["constraints"]) :
                                      type_obj["constraints"][i][1] \in ConstraintNames)
       ELSE UNCHANGED <<json_type, facets_found>>
    /\ conv_pc' = "validators"
    /\ UNCHANGED <<batchVars, patVars, fileVars, applierVars, runVars, xsd_name, type_obj, definitions>>

\* lines 191-239: method 4, the validators
FacetValidators ==
    /\ conv_pc = "validators"
    /\ IF Has(type_obj, "validators")
       THEN /\ json_type' = ApplyValidators(json_type, type_obj["validators"], 1)
            /\ facets_found' =
                 (facets_found \/ \E i \in 1..Len(type_obj["validators"]) :
                                      ValidatorFound(type_obj["validators"][i]))
       ELSE UNCHANGED <<json_type, facets_found>>
    /\ conv_pc' = "patterns"
    /\ UNCHANGED <<batchVars, patVars, fileVars, applierVars, runVars, xsd_name, type_obj, definitions>>

\* lines 241-275: method 5, the patterns attribute
DirectPatterns ==
    /\ conv_pc = "patterns"
    /\ IF Has(type_obj, "patterns") /\ Len(type_obj["patterns"]) > 0
       THEN /\ json_type' = ApplyPatternNodes(json_type, type_obj["patterns"])
            /\ facets_found' = (facets_found \/ json_type' # json_type
                                \/ RecoveredNodes(type_obj["patterns"]) # {})
       ELSE UNCHANGED <<json_type, facets_found>>
    /\ conv_pc' = "pattern_facet"
    /\ UNCHANGED <<batchVars, patVars, fileVars, applierVars, runVars, xsd_name, type_obj, definitions>>

\* lines 277-291: method 6, the validators named XsdPatternFacet
PatternFacetValidators ==
    /\ conv_pc = "pattern_facet"
    /\ IF Has(type_obj, "validators")
       THEN /\ json_type' = ApplyPatternFacets(json_type, type_obj["validators"], 1)
            /\ facets_found' =
                 (facets_found \/ \E i \in 1..Len(type_obj["validators"]) :
                                      IsPatternFacet(type_obj["validators"][i]))
       ELSE UNCHANGED <<json_type, facets_found>>
    /\ conv_pc' = "base"
    /\ UNCHANGED <<batchVars, patVars, fileVars, applierVars, runVars, xsd_name, type_obj, definitions>>

\* lines 293-320: the type of the base, and the return of json_type
BaseType ==
    /\ conv_pc = "base"
    /\ json_type' = BaseJsonType(json_type, type_obj)
    /\ conv_pc' = "register"
    /\ UNCHANGED <<batchVars, patVars, fileVars, applierVars, runVars,
                   xsd_name, type_obj, facets_found, definitions>>

\* lines 108-110: _process_complex_types calls _convert_complex_type
ConvertComplex ==
    /\ conv_pc = "complex"
    /\ ~type_obj["is_simple"]
    /\ json_type' = ConvertComplexType(type_obj, xsd_name)
    /\ conv_pc' = "register"
    /\ UNCHANGED <<batchVars, patVars, fileVars, applierVars, runVars,
                   xsd_name, type_obj, facets_found, definitions>>

\* lines 97-100 and 111-114: the record is stored under the converted name
RegisterType ==
    /\ conv_pc = "register"
    /\ definitions' = Put(definitions, ConvertTypeName(xsd_name), json_type)
    /\ conv_pc' = "done"
    /\ UNCHANGED <<batchVars, patVars, fileVars, applierVars, runVars,
                   xsd_name, type_obj, json_type, facets_found>>

ConverterNext ==
    \/ DirectFacets
    \/ ViaRestrictions
    \/ RestrictionConstraints
    \/ FacetValidators
    \/ DirectPatterns
    \/ PatternFacetValidators
    \/ BaseType
    \/ ConvertComplex
    \/ RegisterType

SpecConverter == ConverterInit /\ [][ConverterNext]_vars

(***************************************************************************)
(* Properties of the converter, checked under SpecConverter                *)
(***************************************************************************)
\* a simple type has been converted
SimpleConverted == conv_pc \in {"register", "done"} /\ type_obj["is_simple"]

\* a complex type has been converted
ComplexConverted == conv_pc \in {"register", "done"} /\ ~type_obj["is_simple"]

\* C13: once minLength, maxLength or enum is set, the strategies that follow
\* (restriction list, inline constraints, validator list) leave it as it is.
C13_FirstFoundWins ==
    [][(conv_pc \in {"restrictions", "constraints", "validators"}) =>
        \A field \in {"minLength", "maxLength", "enum"} :
            (Has(json_type, field) =>
                /\ Has(json_type', field)
                /\ json_type'[field] = json_type[field])]_vars

\* C14: once a strategy has set the pattern, no later strategy changes it: the
\* record keeps the first pattern discovered.
C14_SinglePattern ==
    [][(conv_pc \in {"restrictions", "constraints", "validators", "patterns", "pattern_facet"}) =>
        (Has(json_type, "pattern") =>
            /\ Has(json_type', "pattern")
            /\ json_type'["pattern"] = json_type["pattern"])]_vars

\* the facet names _convert_simple_type turns into constraints
FacetNames == {"minLength", "maxLength", "length", "pattern", "enumeration"}

\* a strategy other than method 5 finds a constraint on the type
YieldsConstraint(obj) ==
    \/ Has(obj, "facets") /\ DOMAIN obj["facets"] \cap FacetNames # {}
    \/ /\ Has(obj, "restrictions")
       /\ \E i \in 1..Len(obj["restrictions"]) :
             /\ Has(obj["restrictions"][i], "facets")
             /\ DOMAIN obj["restrictions"][i]["facets"] \cap FacetNames # {}
    \/ /\ Has(obj, "base_type") /\ Has(obj, "constraints")
       /\ \E i \in 1..Len(obj["constraints"]) : obj["constraints"][i][1] \in FacetNames
    \/ /\ Has(obj, "validators")
       /\ \E i \in 1..Len(obj["validators"]) :
             LET v == obj["validators"][i]
             IN  \/ Has(v, "enumeration") /\ v["enumeration"] # <<>>
                 \/ /\ v["kind"] \in {"XsdPatternFacets", "XsdPatternFacet", "XsdMinLengthFacet",
                                      "XsdMaxLengthFacet", "XsdLengthFacet"}
                    /\ DOMAIN v \cap {"value", "pattern", "patterns", "regexps"} # {}

\* a value can be recovered from the raw pattern node
Recoverable(pat) ==
    \/ Has(pat, "value") /\ pat["value"] # <<>>
    \/ ~Has(pat, "value") /\ Has(pat, "get") /\ pat["get"] # <<>>
    \/ ~Has(pat, "value") /\ ~Has(pat, "get") /\ Has(pat, "attrib")
         /\ Has(pat["attrib"], "value")
    \/ DOMAIN pat \cap {"value", "get", "attrib"} = {} /\ Has(pat, "str")

\* the type has raw pattern nodes, and a value can be recovered from none
OnlyLostPatterns(obj) ==
    /\ Has(obj, "patterns")
    /\ Len(obj["patterns"]) > 0
    /\ \A i \in 1..Len(obj["patterns"]) : ~Recoverable(obj["patterns"][i])

\* the base of the type is numeric or boolean
NumericOrBooleanBase(obj) ==
    \/ Has(obj, "python_type") /\ obj["python_type"] \in {"int", "float", "bool"}
    \/ /\ ~Has(obj, "python_type") /\ Has(obj, "base_type")
       /\ Has(obj["base_type"], "local_name")
       /\ obj["base_type"]["local_name"] \in
            {"int", "integer", "long", "short", "float", "double", "decimal", "boolean"}

\* C15: _convert_simple_type returns a record with a type for every simple
\* type; when no strategy finds a constraint, raw pattern nodes without a
\* recoverable value included, the record has no constraint field, and is
\* exactly {type: string} unless the base is numeric or boolean.
C15_NeverFails ==
    SimpleConverted =>
        /\ Has(json_type, "type")
        /\ json_type["type"] \in {"string", "integer", "number", "boolean"}
        /\ (/\ ~YieldsConstraint(type_obj)
            /\ (Has(type_obj, "patterns") =>
                    \A i \in 1..Len(type_obj["patterns"]) : ~Recoverable(type_obj["patterns"][i])))
           => /\ DOMAIN json_type = {"type"}
              /\ ~NumericOrBooleanBase(type_obj) => json_type = [type |-> "string"]

\* C15 witness: a type whose only facets are two raw pattern nodes without a
\* recoverable value was converted to {type: string} and registered.
C15_Witness ==
    /\ conv_pc = "done"
    /\ type_obj["is_simple"]
    /\ OnlyLostPatterns(type_obj)
    /\ Len(type_obj["patterns"]) > 1
    /\ ~YieldsConstraint(type_obj)
    /\ json_type = [type |-> "string"]
    /\ ~facets_found

RequiredNames(record) ==
    IF Has(record, "required")
    THEN {record["required"][i] : i \in 1..Len(record["required"])}
    ELSE {}

\* C17: every name in the required list of a record produced by
\* _convert_complex_type is a key of its properties.
C17_RequiredSubset ==
    ComplexConverted => RequiredNames(json_type) \subseteq DOMAIN json_type["properties"]

\* C17 witness: an element and an attribute share a name, which is required.
C17_Witness ==
    /\ conv_pc = "done"
    /\ ~type_obj["is_simple"]
    /\ \E i \in 1..Len(ElementsOf(type_obj)) : \E j \in 1..Len(AttributesOf(type_obj)) :
          /\ ElementsOf(type_obj)[i]["local_name"] = AttributesOf(type_obj)[j][1]
          /\ AttributesOf(type_obj)[j][1] \in RequiredNames(json_type)
    /\ \E i \in 1..Len(ElementsOf(type_obj)) :
          /\ ~Has(ElementsOf(type_obj)[i], "type")
          /\ ElementsOf(type_obj)[i]["local_name"] \in RequiredNames(json_type)

\* C18: the name of an element is in required exactly when its min_occurs is
\* greater than zero, the name of an attribute exactly when its use is
\* 'required', and each of them is a property.
C18_RequiredIff ==
    ComplexConverted =>
        /\ \A i \in 1..Len(ElementsOf(type_obj)) :
              LET element == ElementsOf(type_obj)[i]
              IN  /\ Has(json_type["properties"], element["local_name"])
                  /\ element["local_name"] \in RequiredNames(json_type)
                        <=> element["min_occurs"] > 0
        /\ \A j \in 1..Len(AttributesOf(type_obj)) :
              LET item == AttributesOf(type_obj)[j]
              IN  /\ Has(json_type["properties"], item[1])
                  /\ item[1] \in RequiredNames(json_type) <=> item[2]["use"] = "required"

\* the name a converted type is stored under
RegisteredName == CHOOSE n \in DOMAIN definitions : TRUE

\* C19: a name whose part after the last ':' is, lower-cased, a key of the
\* conversion table is stored under the table's canonical name; string3-5,
\* STRING3-5 and xs:string3-5 are stored as String3To5, and string3-5 with
\* minLength 3 and maxLength 5 as String3To5 = {type string, minLength 3,
\* maxLength 5}.
C19_TableLookup ==
    (conv_pc = "done" /\ xsd_name # None) =>
        LET String3To5 == <<"S","t","r","i","n","g","3","T","o","5">>
        IN  /\ \A key \in DOMAIN Conversions :
                  Lower(AfterLastColon(xsd_name)) = key
                     => DOMAIN definitions = {Conversions[key]}
            /\ xsd_name \in {<<"s","t","r","i","n","g","3","-","5">>,
                             <<"S","T","R","I","N","G","3","-","5">>,
                             <<"x","s",":","s","t","r","i","n","g","3","-","5">>}
                  => DOMAIN definitions = {String3To5}
            /\ (/\ xsd_name = <<"s","t","r","i","n","g","3","-","5">>
                /\ type_obj = [is_simple |-> TRUE,
                               facets |-> [minLength |-> 3, maxLength |-> 5]])
                  => definitions = (String3To5 :>
                                      [type |-> "string", minLength |-> 3, maxLength |-> 5])

\* C19 witness: a type named STRING3-5 was stored as String3To5.
C19_Witness ==
    /\ conv_pc = "done"
    /\ xsd_name = <<"S","T","R","I","N","G","3","-","5">>
    /\ RegisteredName = <<"S","t","r","i","n","g","3","T","o","5">>

\* C20: _convert_type_name returns a name for every name it is given, never
\* raises, and returns 'UnknownType' for None and for the empty string.
C20_NameNeverFails ==
    conv_pc = "done" =>
        /\ Cardinality(DOMAIN definitions) = 1
        /\ RegisteredName # Raised
        /\ \A i \in 1..Len(RegisteredName) : RegisteredName[i] # "raise"
        /\ (xsd_name = None \/ xsd_name = <<>>)
              => RegisteredName = <<"U","n","k","n","o","w","n","T","y","p","e">>

\* C20 witness: the name None was converted to UnknownType.
C20_Witness ==
    /\ conv_pc = "done"
    /\ xsd_name = None
    /\ RegisteredName = <<"U","n","k","n","o","w","n","T","y","p","e">>

\* the words of a name joined, each with its first character upper-cased and
\* its other characters as they are
JoinedWords(s) ==
    LET kept == SelectSeq([i \in 1..Len(s) |-> i], LAMBDA i : s[i] \notin Separators)
    IN  [k \in 1..Len(kept) |->
            IF kept[k] = 1 \/ s[kept[k] - 1] \in Separators
            THEN UpperChar(s[kept[k]])
            ELSE s[kept[k]]]

\* C21: a name whose part after the last ':' is not in the conversion table is
\* stored under the concatenation of its words, split on '-', '_' and
\* whitespace: no separator is left, and each word keeps its letters, the first
\* one upper-cased.
C21_PascalCaseFallback ==
    (/\ conv_pc = "done"
     /\ xsd_name # None
     /\ xsd_name # <<>>
     /\ Lower(AfterLastColon(xsd_name)) \notin DOMAIN Conversions)
    => /\ \A i \in 1..Len(RegisteredName) : RegisteredName[i] \notin Separators
       /\ RegisteredName = JoinedWords(AfterLastColon(xsd_name))

\* the schemas of kind object that _enhance_existing_schemas is about to visit
ObjectSchemas ==
    {n \in DOMAIN swagger_data["schemas"] :
        /\ Has(swagger_data["schemas"][n], "type")
        /\ swagger_data["schemas"][n]["type"] = "object"}

\* C22: in the enhancement step, an object schema without additionalProperties
\* gets additionalProperties false when strict is true, an additionalProperties
\* value already present stays as it is, and when strict is false no schema
\* gains the key.
C22_StrictMode ==
    [][EnhanceStep =>
        /\ \A n \in ObjectSchemas :
              LET before == swagger_data["schemas"][n]
                  after == swagger_data'["schemas"][n]
              IN  /\ (strict_mode /\ ~Has(before, "additionalProperties"))
                        => /\ Has(after, "additionalProperties")
                           /\ after["additionalProperties"] = FALSE
                  /\ Has(before, "additionalProperties")
                        => /\ Has(after, "additionalProperties")
                           /\ after["additionalProperties"] = before["additionalProperties"]
        /\ ~strict_mode =>
              \A n \in DOMAIN swagger_data["schemas"] :
                  Has(swagger_data'["schemas"][n], "additionalProperties")
                      <=> Has(swagger_data["schemas"][n], "additionalProperties")]_vars

\* C22 witness: a strict run has enhanced a document whose object schema
\* Payload came with additionalProperties true and whose object schema
\* MgmtCodeType, copied from the registry, had no additionalProperties.
C22_Witness ==
    /\ pc = "fields"
    /\ strict_mode
    /\ runs = 0
    /\ Has(swagger_data["schemas"], "MgmtCodeType")
    /\ Has(swagger_data["schemas"], "Payload")
    /\ ~Has(RegGet(schema_mappings, "MgmtCodeType"), "additionalProperties")
    /\ swagger_data["schemas"]["MgmtCodeType"]["additionalProperties"] = FALSE
    /\ swagger_data["schemas"]["Payload"]["additionalProperties"] = TRUE

\* the entries of components.schemas whose value is not a mapping
NonMappingSchemas(data) == {n \in DOMAIN SchemasOf(data) : ~IsDict(SchemasOf(data)[n])}

\* C23: a run whose document holds a non-mapping value where a schema is
\* expected fails: it never reaches the point where the document is saved, and
\* never completes, with that entry left in place.
C23_StructuralViolationFails ==
    pc \in {"save", "idle"} => NonMappingSchemas(swagger_data) = {}

\* the names of the properties of a schema as it is on disk
PropertyNames(schema) ==
    IF IsDict(schema) /\ Has(schema, "properties") THEN DOMAIN schema["properties"] ELSE {}

\* C24: when a run is about to save, every schema name of the input document is
\* still a key of components.schemas, and every property of every object schema of
\* the input document is still a property of that schema, whatever its name.
C24_NoFieldDeleted ==
    pc = "save" =>
        LET before == SchemasOf(swagger_file)
            after == DumpSchemas(swagger_data["schemas"], heap)
        IN  \A n \in DOMAIN before :
                /\ n \in DOMAIN after
                /\ PropertyNames(before[n]) \subseteq PropertyNames(after[n])

\* C25: the registry a run works with, once _extract_schema_definitions has
\* built it, holds exactly the definitions of that run's schema file, also in
\* the second run of one applier object.
C25_RegistryOfThisRun ==
    pc = "components" =>
        /\ RegKeys(schema_mappings) = DOMAIN FileDefs(schema_file)
        /\ \A i \in 1..Len(schema_mappings) :
              RegistryView(schema_mappings, heap)[i].def
                  = FileDefs(schema_file)[schema_mappings[i].key]

\* the registry keys equal to name when case is ignored
KeysIgnoringCase(reg, name) == {k \in RegKeys(reg) : LowerSpelling[k] = LowerSpelling[name]}

\* C26: for every name, on the registry the enhancement step of a run looks
\* names up in, the lookup returns the name itself when it is a key; otherwise a
\* key equal to it when case is ignored, if there is one; it returns nothing
\* exactly when no key equals the name ignoring case, and never more than one
\* key, also when two keys differ only by case.
C26_RegistryLookup ==
    pc = "enhance" => \A name \in DOMAIN Spelling :
        LET found == FindSchemaKeyCaseInsensitive(schema_mappings, name)
        IN  /\ Len(found) <= 1
            /\ name \in RegKeys(schema_mappings) => found = <<name>>
            /\ (name \notin RegKeys(schema_mappings)
                  /\ KeysIgnoringCase(schema_mappings, name) # {})
                  => /\ found # <<>>
                     /\ found[1] \in KeysIgnoringCase(schema_mappings, name)
            /\ found = <<>> <=> KeysIgnoringCase(schema_mappings, name) = {}

\* C26 witness: the registry holds String15 and string15; FundAcctID was enhanced
\* from String15, the exact key, and the lookup of STRING15 gives one of the two.
C26_Witness ==
    /\ pc = "fields"
    /\ RegKeys(schema_mappings) = {"String15", "string15"}
    /\ Has(swagger_data["schemas"], "Order")
    /\ heap[swagger_data["schemas"]["Order"]["properties"]]["FundAcctID"]
         = [type |-> "string", maxLength |-> 15, description |-> "Fund account"]
    /\ FindSchemaKeyCaseInsensitive(schema_mappings, "String15") = <<"String15">>
    /\ FindSchemaKeyCaseInsensitive(schema_mappings, "STRING15") = <<"String15">>
    /\ FindSchemaKeyCaseInsensitive(schema_mappings, "Date8") = <<>>

(***************************************************************************)
(* batch-enhance-apis.py: main.  Each document is enhanced by a child      *)
(* process running apply-schema-to-swagger.py; what main sees of it is how *)
(* subprocess.run ended.                                                   *)
(***************************************************************************)
MaxDocuments == 3

\* the files that can be under input_dir: nested is "in a subdirectory",
\* swagger is "the file can be read and holds one of the keywords of line 37"
FilePool == <<
    [name |-> "buy.yaml", suffix |-> "yaml", nested |-> FALSE, swagger |-> TRUE],
    [name |-> "sell.yml", suffix |-> "yml", nested |-> FALSE, swagger |-> TRUE],
    [name |-> "v2/switch.yaml", suffix |-> "yaml", nested |-> TRUE, swagger |-> TRUE],
    [name |-> "notes.yaml", suffix |-> "yaml", nested |-> FALSE, swagger |-> FALSE] >>

Directories ==
    {S \in SUBSET (1..Len(FilePool)) : Cardinality(S) <= MaxDocuments}

\* how subprocess.run ended for one document (lines 65-76)
Outcomes == {"returncode 0", "returncode 1", "exception"}

\* line 28: directory.glob(pattern), the files of the directory itself
Glob(dir, pattern) ==
    SelectSeq([i \in 1..Len(FilePool) |-> i],
              LAMBDA i : i \in dir /\ FilePool[i].suffix = pattern /\ ~FilePool[i].nested)

\* line 29: directory.rglob(pattern), the files of the directory and below
Rglob(dir, pattern) ==
    SelectSeq([i \in 1..Len(FilePool) |-> i],
              LAMBDA i : i \in dir /\ FilePool[i].suffix = pattern)

\* lines 24-40: yaml_files filtered to the likely Swagger files, in list order
LikelySwaggerFiles(dir) ==
    SelectSeq(Glob(dir, "yaml") \o Rglob(dir, "yaml") \o Glob(dir, "yml") \o Rglob(dir, "yml"),
              LAMBDA i : FilePool[i].swagger)

\* the lists that hold each element of S once
Orderings(S) ==
    {s \in [1..Cardinality(S) -> S] : {s[k] : k \in 1..Cardinality(S)} = S}

\* Variant of FindSwaggerFiles: line 42 returns swagger_files as it is.
FindSwaggerFilesKeepingDuplicates(dir) == {LikelySwaggerFiles(dir)}

\* lines 22-42: find_swagger_files; list(set(...)) gives the files found, each
\* once, in an order the code does not fix
FindSwaggerFiles(dir) ==
    Orderings({LikelySwaggerFiles(dir)[k] : k \in 1..Len(LikelySwaggerFiles(dir))})

\* Variant of EnhanceApiFile: line 67 is not tested, a child that ran is a success.
EnhanceApiFileIgnoringReturnCode(outcome) == outcome # "exception"

\* lines 45-76: enhance_api_file, the bool it returns
EnhanceApiFile(outcome) == outcome = "returncode 0"

BatchInit ==
    /\ PatternOff
    /\ ApplierOff
    /\ ConverterOff
    /\ paths \in [input_dir : BOOLEAN, schema_file : BOOLEAN]
    /\ directory \in (IF paths.input_dir THEN Directories ELSE {{}})
    /\ dry_run \in BOOLEAN
    /\ swagger_files = <<>>
    /\ attempts = <<>>
    /\ successful = 0
    /\ failed = 0
    /\ exit_code = 0
    /\ batch_pc = "start"

\* lines 79-121: main up to the loop: the two paths, find_swagger_files, the
\* empty list, --dry-run
FindFiles ==
    /\ batch_pc = "start"
    /\ IF ~paths.input_dir \/ ~paths.schema_file
       THEN /\ exit_code' = 1
            /\ batch_pc' = "exited"
            /\ UNCHANGED swagger_files
       ELSE /\ swagger_files' \in FindSwaggerFiles(directory)
            /\ IF swagger_files' = <<>>
               THEN exit_code' = 1 /\ batch_pc' = "exited"
               ELSE IF dry_run
               THEN exit_code' = 0 /\ batch_pc' = "exited"
               ELSE exit_code' = 0 /\ batch_pc' = "loop"
    /\ UNCHANGED <<patVars, fileVars, applierVars, runVars, convVars,
                   paths, directory, dry_run, attempts, successful, failed>>

\* lines 129-133: one turn of the loop of main, with enhance_api_file
ProcessFile ==
    /\ batch_pc = "loop"
    /\ Len(attempts) < Len(swagger_files)
    /\ \E outcome \in Outcomes :
          /\ attempts' = Append(attempts,
                                [file |-> swagger_files[Len(attempts) + 1],
                                 outcome |-> outcome])
          /\ IF EnhanceApiFile(outcome)
             THEN successful' = successful + 1 /\ failed' = failed
             ELSE failed' = failed + 1 /\ successful' = successful
    /\ UNCHANGED <<patVars, fileVars, applierVars, runVars, convVars,
                   paths, directory, dry_run, swagger_files, exit_code, batch_pc>>

\* lines 135-141: the report and the exit status
ExitBatch ==
    /\ batch_pc = "loop"
    /\ Len(attempts) = Len(swagger_files)
    /\ exit_code' = IF failed > 0 THEN 1 ELSE 0
    /\ batch_pc' = "exited"
    /\ UNCHANGED <<patVars, fileVars, applierVars, runVars, convVars,
                   paths, directory, dry_run, swagger_files, attempts, successful, failed>>

BatchNext ==
    \/ FindFiles
    \/ ProcessFile
    \/ ExitBatch

SpecBatch == BatchInit /\ [][BatchNext]_vars

(***************************************************************************)
(* Properties of the batch script, checked under SpecBatch                 *)
(***************************************************************************)
\* the number of calls of enhance_api_file made for a file
AttemptsOf(file) == Cardinality({k \in 1..Len(attempts) : attempts[k].file = file})

\* the documents whose child process did not end with return code 0
FailedDocuments ==
    {attempts[k].file : k \in {j \in 1..Len(attempts) : attempts[j].outcome # "returncode 0"}}

\* what C27 asks of a batch that has exited
BatchOutcome ==
    /\ \A k \in 1..Len(swagger_files) : AttemptsOf(swagger_files[k]) = 1
    /\ successful + failed = Len(swagger_files)
    /\ exit_code # 0 <=> FailedDocuments # {}

DocumentToSave ==
    Put(swagger_data, "schemas", DumpSchemas(swagger_data["schemas"], heap))

\* C28: a run on the output of the previous run, with the registry that run
\* had (the schema file holds exactly the registry's keys) and the same strict
\* flag, is about to save the document it was given: nothing changed, and the
\* enhancement note is in info.description once.
C28_PipelineIdempotent ==
    (/\ pc = "save"
     /\ runs >= 1
     /\ RegKeys(schema_mappings) = DOMAIN FileDefs(schema_file))
    => DocumentToSave = swagger_file

\* C29: when a run is about to save, each schema the enum overlay injected
\* (SrcType, ActnCode, AcctDesigType, AmtType, SettlMethd, RspnSrc, RtnCode) has
\* the overlay's enum values, whatever the registry holds under that name.
C29_OverlayEnumsSurvive ==
    pc = "save" =>
        \A n \in DOMAIN Enums :
            /\ Has(swagger_data["schemas"], n)
            /\ Has(swagger_data["schemas"][n], "enum")
            /\ swagger_data["schemas"][n]["enum"] = Enums[n]["enum"]

=============================================================================
